---- MODULE Spec2Model ----
(***************************************************************************)
(* Verification model of the opencode-gemini-auth resilience layer:        *)
(*   - the retry/backoff engine       (src/plugin/retry/index.ts,          *)
(*                                     helpers.ts, quota.ts)               *)
(*   - the token refresh coordinator  (refreshAccessToken)                 *)
(*   - the project context resolver   (src/plugin/project/context.ts)      *)
(* Every component has its own specification (SpecRetry, SpecToken,        *)
(* SpecProject); the variables of the other components stay at their       *)
(* initial value.                                                          *)
(*                                                                         *)
(* Time.  Every stored timestamp is kept relative to the clock: the value  *)
(* x stands for the absolute time Date.now() + x, so "Date.now() + delayMs"*)
(* is delayMs and "until - Date.now()" is until.  When time passes by d    *)
(* every stored value decreases by d; a deadline that is over is 0, which  *)
(* is also the value of a missing map entry (the code treats both alike:   *)
(* waitForRetryCooldown returns at once, setRetryCooldown takes the max    *)
(* with a later time).                                                     *)
(***************************************************************************)
EXTENDS Integers, Sequences, FiniteSets, TLC

(***************************************************************************)
(* Bounds of the model.                                                    *)
(***************************************************************************)
NumCalls == 2

Null == 0 - 1

Max(a, b) == IF a >= b THEN a ELSE b

Min(a, b) == IF a <= b THEN a ELSE b

(***************************************************************************)
(* Program constants of the retry engine.                                  *)
(***************************************************************************)
DEFAULT_MAX_ATTEMPTS == 3

DEFAULT_INITIAL_DELAY_MS == 5000

DEFAULT_MAX_DELAY_MS == 30000

MODEL_CAPACITY_COOLDOWN_MS == 8000

RATE_LIMIT_DEFAULT_DELAY_MS == 10000

PER_MINUTE_DEFAULT_DELAY_MS == 60000

CLOUDCODE_DOMAINS ==
  { "cloudcode-pa.googleapis.com",
    "staging-cloudcode-pa.googleapis.com",
    "autopush-cloudcode-pa.googleapis.com" }

RETRYABLE_NETWORK_CODES ==
  { "ECONNRESET", "ETIMEDOUT", "EPIPE", "ENOTFOUND", "EAI_AGAIN", "ECONNREFUSED",
    "ERR_SSL_SSLV3_ALERT_BAD_RECORD_MAC", "ERR_SSL_WRONG_VERSION_NUMBER",
    "ERR_SSL_DECRYPTION_FAILED_OR_BAD_RECORD_MAC", "ERR_SSL_BAD_RECORD_MAC", "EPROTO" }

(***************************************************************************)
(* Inputs of fetchWithRetry: the request init (body kind, and for a string *)
(* body the project and model fields of its JSON) and the url.             *)
(***************************************************************************)
Calls == 1..NumCalls

Urls == { "u1" }

RequestBodies ==
  { [kind |-> "none",   project |-> "",   model |-> ""],
    [kind |-> "string", project |-> "p1", model |-> "m1"],
    [kind |-> "stream", project |-> "",   model |-> ""] }

NoBody == [kind |-> "none", project |-> "", model |-> ""]

\* a faulty variant: every body is taken to be replayable
canRetryRequestAnyBody(body) == TRUE

\* canRetryRequest: an absent body, a string, URLSearchParams, ArrayBuffer,
\* a view or a Blob can be replayed; anything else (a stream) cannot.
canRetryRequest(body) ==
  body.kind \in { "none", "string", "params", "buffer", "blob" }

\* buildRetryThrottleKey: url | project | model, the last two read from a
\* string body only.
buildRetryThrottleKey(url, body) ==
  IF body.kind = "string"
    THEN << url, body.project, body.model >>
    ELSE << url, "", "" >>

ThrottleKeys == { buildRetryThrottleKey(u, b) : u \in Urls, b \in RequestBodies }

(***************************************************************************)
(* Upstream responses.  A delay value as written in a RetryInfo detail or  *)
(* in the message text is a number with a unit.                            *)
(***************************************************************************)
NoDelay == [unit |-> "none", num |-> 0]

Ms(n) == [unit |-> "ms", num |-> n]

Sec(n) == [unit |-> "s", num |-> n]

NoHeader == [form |-> "none", v |-> 0]

NoPayload ==
  [present |-> FALSE, domain |-> "", reason |-> "", retryInfo |-> NoDelay,
   msgDelay |-> NoDelay, violation |-> "none", quotaLimit |-> ""]

ErrorPayload(domain, reason, retryInfo, violation) ==
  [present |-> TRUE, domain |-> domain, reason |-> reason, retryInfo |-> retryInfo,
   msgDelay |-> NoDelay, violation |-> violation, quotaLimit |-> ""]

Resp(status, body) ==
  [status |-> status, retryAfterMs |-> Null, retryAfter |-> NoHeader, body |-> body]

CC == "cloudcode-pa.googleapis.com"

RetryResponses ==
  << Resp(200, NoPayload),
     Resp(404, NoPayload),
     Resp(503, NoPayload),
     Resp(429, NoPayload),
     [Resp(429, NoPayload) EXCEPT !.retryAfter = [form |-> "sec", v |-> 0]],
     Resp(429, ErrorPayload(CC, "RATE_LIMIT_EXCEEDED", Ms(1500), "none")),
     Resp(429, ErrorPayload(CC, "RATE_LIMIT_EXCEEDED", NoDelay, "none")),
     Resp(429, ErrorPayload(CC, "QUOTA_EXHAUSTED", NoDelay, "none")),
     Resp(429, ErrorPayload(CC, "MODEL_CAPACITY_EXHAUSTED", NoDelay, "none")),
     Resp(429, ErrorPayload(CC, "MODEL_CAPACITY_EXHAUSTED", Ms(500), "none")),
     Resp(429, ErrorPayload("other.googleapis.com", "QUOTA_EXHAUSTED", NoDelay, "none")),
     Resp(429, ErrorPayload(CC, "RATE_LIMIT_EXCEEDED", Sec(45), "none")),
     Resp(429, ErrorPayload(CC, "MODEL_CAPACITY_EXHAUSTED", Sec(45), "none")),
     Resp(429, ErrorPayload(CC, "", NoDelay, "perminute")),
     Resp(429, ErrorPayload(CC, "", Sec(20), "perminute")),
     Resp(429, ErrorPayload(CC, "", NoDelay, "perday")),
     [Resp(429, ErrorPayload(CC, "RATE_LIMIT_EXCEEDED", Ms(1500), "none"))
        EXCEPT !.retryAfterMs = 700, !.retryAfter = [form |-> "sec", v |-> 2]],
     [Resp(429, ErrorPayload(CC, "RATE_LIMIT_EXCEEDED", NoDelay, "none"))
        EXCEPT !.retryAfter = [form |-> "sec", v |-> 2]],
     Resp(503, ErrorPayload("", "", Sec(3), "none")),
     [Resp(503, NoPayload)
        EXCEPT !.retryAfterMs = 0, !.retryAfter = [form |-> "date", v |-> 2500]],
     Resp(429, [ErrorPayload(CC, "MODEL_CAPACITY_EXHAUSTED", NoDelay, "none")
                  EXCEPT !.msgDelay = Ms(800)]),
     [Resp(429, ErrorPayload(CC, "MODEL_CAPACITY_EXHAUSTED", NoDelay, "none"))
        EXCEPT !.retryAfter = [form |-> "sec", v |-> 2]],
     Resp(429, ErrorPayload("other.googleapis.com", "MODEL_CAPACITY_EXHAUSTED", NoDelay, "none")),
     Resp(429, ErrorPayload("other.googleapis.com", "RATE_LIMIT_EXCEEDED", NoDelay, "none")),
     Resp(429, ErrorPayload("other.googleapis.com", "", Ms(1500), "perday")) >>

\* the answers the concurrent calls are given: 200, 503, a bare 429, a 429
\* with Retry-After: 0, a rate limit with a RetryInfo delay and a capacity
\* error without one
RespIds == { 1, 3, 4, 5, 6, 9 }

\* fetch rejections: the error code, or the message for an error without one
NetworkErrors == { "ECONNRESET", "fetch failed", "AbortError" }

\* a faulty variant: every error status is retried
isRetryableStatusAnyError(status) == status >= 400

isRetryableStatus(status) == status = 429 \/ (status >= 500 /\ status < 600)

isRetryableNetworkError(e) == e \in RETRYABLE_NETWORK_CODES \/ e = "fetch failed"

\* a faulty variant: the delay has no upper limit
clampDelayUnbounded(d) == Max(0, d)

\* clampDelay: the delay is kept within 0 .. DEFAULT_MAX_DELAY_MS
clampDelay(d) == Min(Max(0, d), DEFAULT_MAX_DELAY_MS)

\* a faulty variant: a value in milliseconds is not understood
parseRetryDelayValueSeconds(v) ==
  CASE v.unit = "s"  -> IF v.num > 0 THEN v.num * 1000 ELSE Null
    [] OTHER         -> Null

\* parseRetryDelayValue: "<n>ms" and "<n>s" with n > 0, otherwise null
parseRetryDelayValue(v) ==
  CASE v.unit = "ms" -> IF v.num > 0 THEN v.num ELSE Null
    [] v.unit = "s"  -> IF v.num > 0 THEN v.num * 1000 ELSE Null
    [] OTHER         -> Null

\* parseRetryDelayFromMessage: "Please retry in X" / "after X" in the text
parseRetryDelayFromMessage(body) ==
  IF body.msgDelay.unit = "none" THEN Null ELSE parseRetryDelayValue(body.msgDelay)

\* the retryDelayMs computed at the head of classifyQuotaResponse
BodyRetryDelayMs(body) ==
  LET fromInfo == IF body.retryInfo.unit = "none" THEN Null
                  ELSE parseRetryDelayValue(body.retryInfo)
  IN  IF fromInfo # Null THEN fromInfo ELSE parseRetryDelayFromMessage(body)

NoQuota == [classified |-> FALSE, terminal |-> FALSE, retryDelayMs |-> Null, reason |-> ""]

Quota(terminal, delay, reason) ==
  [classified |-> TRUE, terminal |-> terminal, retryDelayMs |-> delay, reason |-> reason]

\* a faulty variant: an explicit delay is used only when it is the smaller one
OrDefaultSmaller(delay, default) == IF delay # Null THEN Min(delay, default) ELSE default

\* retryDelayMs ?? default
OrDefault(delay, default) == IF delay # Null THEN delay ELSE default

\* a faulty variant: a capacity error is terminal whatever it carries
CapacityTerminalAlways(delay) == TRUE

\* MODEL_CAPACITY_EXHAUSTED is terminal when retryDelayMs is undefined
CapacityTerminal(delay) == delay = Null

\* a faulty variant: the domain of the ErrorInfo is not looked at
ForeignDomainNever(domain) == FALSE

\* errorInfo?.domain && !CLOUDCODE_DOMAINS.has(errorInfo.domain)
ForeignDomain(domain) == domain # "" /\ domain \notin CLOUDCODE_DOMAINS

classifyQuotaResponse(resp) ==
  LET body  == resp.body
      delay == BodyRetryDelayMs(body)
  IN  IF ~body.present THEN NoQuota
      ELSE IF ForeignDomain(body.domain) THEN NoQuota
      ELSE IF body.reason = "QUOTA_EXHAUSTED" THEN Quota(TRUE, delay, body.reason)
      ELSE IF body.reason = "RATE_LIMIT_EXCEEDED"
        THEN Quota(FALSE, OrDefault(delay, RATE_LIMIT_DEFAULT_DELAY_MS), body.reason)
      ELSE IF body.reason = "MODEL_CAPACITY_EXHAUSTED"
        THEN Quota(CapacityTerminal(delay), delay, body.reason)
      ELSE IF body.violation = "perday" THEN Quota(TRUE, delay, body.reason)
      ELSE IF body.violation = "perminute"
        THEN Quota(FALSE, OrDefault(delay, PER_MINUTE_DEFAULT_DELAY_MS), body.reason)
      ELSE IF body.violation = "other" THEN Quota(FALSE, delay, body.reason)
      ELSE IF body.quotaLimit = "perminute"
        THEN Quota(FALSE, OrDefault(delay, PER_MINUTE_DEFAULT_DELAY_MS), body.reason)
      ELSE Quota(FALSE, delay, body.reason)

\* parseRetryDelayFromBody: RetryInfo first, then the message text
parseRetryDelayFromBody(resp) ==
  IF ~resp.body.present THEN Null ELSE BodyRetryDelayMs(resp.body)

\* parseRetryAfterMs: a positive number of milliseconds, otherwise null
parseRetryAfterMs(h) == IF h = Null \/ h <= 0 THEN Null ELSE h

\* parseRetryAfter: seconds, or an HTTP date (given by its distance from the
\* clock): parsedDate - Date.now()
parseRetryAfter(h) ==
  CASE h.form = "sec"  -> Max(0, h.v * 1000)
    [] h.form = "date" -> Max(0, h.v)
    [] OTHER           -> Null

JitterPct == { 0 - 30, 30 }

RECURSIVE Pow2(_)
Pow2(n) == IF n <= 0 THEN 1 ELSE 2 * Pow2(n - 1)

\* getExponentialDelayWithJitter, the random factor given in percent
getExponentialDelayWithJitter(a, j) ==
  LET base == Min(DEFAULT_MAX_DELAY_MS, DEFAULT_INITIAL_DELAY_MS * Pow2(a - 1))
  IN  clampDelay(base + (base * j) \div 100)

\* a faulty variant: the delay of the quota classification comes first
resolveRetryDelayMsQuotaFirst(resp, a, quotaDelayMs, j) ==
  LET hdrMs  == parseRetryAfterMs(resp.retryAfterMs)
      hdr    == parseRetryAfter(resp.retryAfter)
      fromBody == parseRetryDelayFromBody(resp)
  IN  IF quotaDelayMs # Null THEN clampDelay(quotaDelayMs)
      ELSE IF hdrMs # Null THEN clampDelay(hdrMs)
      ELSE IF hdr # Null THEN clampDelay(hdr)
      ELSE IF fromBody # Null THEN clampDelay(fromBody)
      ELSE getExponentialDelayWithJitter(a, j)

\* resolveRetryDelayMs: the first source that yields a delay
resolveRetryDelayMs(resp, a, quotaDelayMs, j) ==
  LET hdrMs  == parseRetryAfterMs(resp.retryAfterMs)
      hdr    == parseRetryAfter(resp.retryAfter)
      fromBody == parseRetryDelayFromBody(resp)
  IN  IF hdrMs # Null THEN clampDelay(hdrMs)
      ELSE IF hdr # Null THEN clampDelay(hdr)
      ELSE IF quotaDelayMs # Null THEN clampDelay(quotaDelayMs)
      ELSE IF fromBody # Null THEN clampDelay(fromBody)
      ELSE getExponentialDelayWithJitter(a, j)

(***************************************************************************)
(* State of the retry engine.                                              *)
(***************************************************************************)
VARIABLES
  retryCooldownByKey,   \* throttle key -> "do not call before" (0: no entry)
  pc,                   \* position of each fetchWithRetry call
  url,                  \* input of the call
  body,                 \* init.body of the call
  aborted,              \* retryInit.signal.aborted
  attempt,              \* the loop counter
  fetches,              \* number of fetch() invocations made by the call
  resp,                 \* index of the response of the current attempt (0: none)
  quotaContext,         \* result of classifyQuotaResponse for that response
  timer,                \* time left of the pending wait()
  result,               \* what the call handed to its caller
  cooldownAtStart,      \* history: a cooldown of the key was active at the start
  startRemaining,       \* history: time left of that cooldown, up to the first fetch
  mcRemaining,          \* history: time left of the 8 s since mcStart, likewise
  startAborted,         \* history: the signal was already aborted at the start
  earlyFetch,           \* history: first fetch issued before that cooldown was over
  mcJustEnded,          \* history: key of the terminal capacity 429 just returned
  mcStart,              \* history: the call started right after it, same key
  mcEarly               \* history: ... and fetched before MODEL_CAPACITY_COOLDOWN_MS

retryVars ==
  << retryCooldownByKey, pc, url, body, aborted, attempt, fetches, resp,
     quotaContext, timer, result, cooldownAtStart, startRemaining, mcRemaining,
     startAborted, earlyFetch, mcJustEnded, mcStart, mcEarly >>

(***************************************************************************)
(* Packed refresh strings (plugin/auth.ts).  A refresh string is modelled  *)
(* as the sequence of its "|"-separated segments, without trailing empty   *)
(* segments: "rt1||m1" is << "rt1", "", "m1" >> and "" is << >>.           *)
(***************************************************************************)
NumRefreshCalls == 3

NumProjectCalls == 2

Segment(refresh, i) == IF i <= Len(refresh) THEN refresh[i] ELSE ""

\* split on "|" and take the first four segments, missing ones are empty
parseRefreshParts(refresh) ==
  [refreshToken |-> Segment(refresh, 1), projectId |-> Segment(refresh, 2),
   managedProjectId |-> Segment(refresh, 3), email |-> Segment(refresh, 4)]

RECURSIVE StripTrailingEmpty(_)
StripTrailingEmpty(s) ==
  IF s = << >> THEN s
  ELSE IF s[Len(s)] = "" THEN StripTrailingEmpty(SubSeq(s, 1, Len(s) - 1))
  ELSE s

\* join with "|" and strip the trailing separators
formatRefreshParts(parts) ==
  StripTrailingEmpty(<< parts.refreshToken, parts.projectId,
                        parts.managedProjectId, parts.email >>)

\* the parts object built by the refresh and by withProjectAuth has no email
Parts(refreshToken, projectId, managedProjectId) ==
  [refreshToken |-> refreshToken, projectId |-> projectId,
   managedProjectId |-> managedProjectId, email |-> ""]

\* an OAuthAuthDetails record; access 0 stands for "no access token", and
\* expires is kept relative to Date.now() like every other time
OAuth(refresh, access, expires) ==
  [refresh |-> refresh, access |-> access, expires |-> expires]

(***************************************************************************)
(* State of the token refresh and of the project context resolver.         *)
(***************************************************************************)
VARIABLES
  refreshInFlight,      \* refresh token -> the call that owns the pending promise
  rpc,                  \* position of each refreshAccessToken call
  rauth,                \* its auth argument
  rattempt,             \* fetchTokenRefresh: the loop counter
  tokenResp,            \* index of the response fetchTokenRefresh returned (0: none)
  chainOf,              \* the call whose promise this call awaits (0: none)
  chainResult,          \* settlement of refreshAccessTokenInternal's promise
  rresult,              \* what refreshAccessToken handed to its caller
  chainEnd,             \* history: the path the exchange chain took
  authSetCalls,         \* history: client.auth.set invocations made by the chain
  authStore,            \* the host's Auth Store: the last body written
  authCache             \* the short-lived credential cache (./cache)

tokenVars ==
  << refreshInFlight, rpc, rauth, rattempt, tokenResp, chainOf, chainResult,
     rresult, chainEnd, authSetCalls, authCache >>

VARIABLES
  projectContextResultCache,   \* cache key -> ProjectContextResult
  projectContextPendingCache,  \* cache key -> the call that owns the pending promise
  ppc,                         \* position of each ensureProjectContext call
  pauth,                       \* its auth argument
  pcfg,                        \* its configuredProjectId argument
  pkey,                        \* its cache key
  pjoined,                     \* the call whose promise this call returned (0: none)
  pupdated,                    \* the updatedAuth being persisted
  polls,                       \* onboardManagedProject: polls of the operation so far
  loads,                       \* loadManagedProject invocations made by the call
  presolution,                 \* settlement of the call's resolution promise
  presult,                     \* what ensureProjectContext handed to its caller
  invalidatedInFlight,         \* history: keys whose pending entry was invalidated
  resolvedFor                  \* history: keys resolved since the last invalidation

projectVars ==
  << projectContextResultCache, projectContextPendingCache, ppc, pauth, pcfg,
     pkey, pjoined, pupdated, polls, loads, presolution, presult,
     invalidatedInFlight, resolvedFor >>

VARIABLES
  exchangeInFlight,    \* exchange key -> the call that owns the pending promise
  consumedExchanges,   \* exchange key -> time since the pair was consumed
  xpc,                 \* position of each exchangeGeminiWithVerifier call
  xkey,                \* its exchange key
  xjoined,             \* the call whose promise this call returned (0: none)
  xoutcome,            \* settlement of the call's own exchange promise
  xfetches,            \* requests the call sent to the token endpoint
  lastSuccess,         \* history: exchange key -> time since its last success
  failedBefore,        \* history: keys of the exchanges that ended in a failure
  xprior               \* history: what had happened to the pair when the call started

exchangeVars ==
  << exchangeInFlight, consumedExchanges, xpc, xkey, xjoined, xoutcome, xfetches,
     lastSuccess, failedBefore, xprior >>

\* history of a single fetchWithRetry call, kept by the specification of one
\* call only
VARIABLES
  respLog,   \* the outcomes of its fetches: a response or an error each
  waitLog    \* the delays of its wait(delayMs) calls (0: no wait)

logVars == << respLog, waitLog >>

VARIABLES
  tokenLog              \* history: the outcome of each fetch of fetchTokenRefresh

VARIABLES
  loadLog,              \* history: what loadManagedProject returned
  projectLog            \* history: the requests and Auth Store writes of a resolution

projectLogVars == << loadLog, projectLog >>

\* one call of the fetch the loader hands to the host (plugin.ts)
VARIABLES
  dateNow,              \* Date.now(), in ms
  fetchPc,              \* position of the call
  checkedAuth,          \* the record accessTokenExpired was asked about
  checkedAt,            \* Date.now() at that check (Null: no check yet)
  authRecord,           \* the call's authRecord
  refreshedAt,          \* Date.now() when the refresh returned (Null: no refresh)
  bearer,               \* the access token prepareGeminiRequest was given (0: none)
  sentAt                \* Date.now() when it was given (Null: not yet)

loaderVars ==
  << dateNow, fetchPc, checkedAuth, checkedAt, authRecord, refreshedAt, bearer, sentAt >>

\* one call of transformGeminiResponse (request/shared.ts)
VARIABLES
  transformPc,          \* position of the call
  upstream,             \* its response argument
  streaming,            \* its streaming argument
  requestedModel,       \* its requestedModel argument
  textRead,             \* whether response.text() consumed the upstream body
  returned              \* the response it returned

responseVars == << transformPc, upstream, streaming, requestedModel, textRead, returned >>

\* transformRequestBody (request/prepare.ts) applied to a body, and to its
\* own result
VARIABLES
  bodyPc,               \* how often the body went through transformRequestBody
  requestText,          \* the body text given to the first application
  bodyArgs,             \* the projectId and effectiveModel arguments
  transformed,          \* what the first application returned
  retransformed         \* what the second application returned

requestVars == << bodyPc, requestText, bodyArgs, transformed, retransformed >>

\* the error enhancer and the quota classifier applied to one 429 body
VARIABLES
  labelPc,              \* "idle", "enhanced" or "classified"
  labelDetails,         \* the details of the error body given to both
  labelEnhanced,        \* what enhanceGeminiErrorResponse returned
  labelQuota            \* what classifyQuotaResponse returned

labelVars == << labelPc, labelDetails, labelEnhanced, labelQuota >>

\* normalizeThinking inside transformRequestBody (request/prepare.ts)
VARIABLES
  thinkPc,              \* "idle" or "done"
  thinkInput,           \* the request: its shape and its generationConfig
  thinkEmitted          \* the generationConfig of the request in the emitted body

thinkingVars == << thinkPc, thinkInput, thinkEmitted >>

\* the stream transformStreamingPayloadStream returns (request/shared.ts)
VARIABLES
  streamPc,             \* "open" or "closed"
  chunksRead,           \* the values reader.read() has resolved with so far
  buffer,               \* the text read that is not yet a whole line
  enqueued              \* the text given to controller.enqueue so far

streamVars == << streamPc, chunksRead, buffer, enqueued >>

\* the normalisation of a function declaration's parameter schema (request/schema.ts)
VARIABLES
  schemaPc,             \* "idle" or "done"
  schemaInput,          \* declaration[schemaKey] before the call
  schemaOutput          \* declaration[schemaKey] after it

schemaVars == << schemaPc, schemaInput, schemaOutput >>

\* one authorization session of createOAuthAuthorizeMethod (plugin/oauth-authorize.ts)
VARIABLES
  sessionClock,         \* Date.now() - authorizationStartedAt
  exchangePromise,      \* "null", or "set" when the variable holds the promise
  exchangeConsumed,     \* the flag of that name
  exchangeSettlement,   \* what the promise of the exchange was settled with
  exchangesStarted,     \* how many times exchangeGeminiWithVerifier was called
  cbPc,                 \* position of each finalizeExchange call
  cbInput,              \* the parsed callback input of each call
  cbArrival,            \* the phase of the exchange and the age of the session at the call
  cbResult              \* what each call returned

sessionVars == << sessionClock, exchangePromise, exchangeConsumed, exchangeSettlement,
                  exchangesStarted, cbPc, cbInput, cbArrival, cbResult >>

helperVars == << labelVars, thinkingVars, streamVars, schemaVars, sessionVars >>

pluginVars == << loaderVars, responseVars, requestVars, helperVars >>

vars ==
  << retryVars, tokenVars, projectVars, exchangeVars, logVars, tokenLog, projectLogVars,
     pluginVars, authStore >>

\* the retry engine touches neither the token refresh nor the project caches
RetryFrame ==
  UNCHANGED << tokenVars, projectVars, exchangeVars, tokenLog, projectLogVars, pluginVars,
               authStore >>

NoResult == [kind |-> "none", resp |-> 0, err |-> ""]

NoKey == << >>

InitRetry ==
  /\ retryCooldownByKey = [k \in ThrottleKeys |-> 0]
  /\ pc = [c \in Calls |-> "start"]
  /\ url = [c \in Calls |-> "u1"]
  /\ body = [c \in Calls |-> NoBody]
  /\ aborted = [c \in Calls |-> FALSE]
  /\ attempt = [c \in Calls |-> 0]
  /\ fetches = [c \in Calls |-> 0]
  /\ resp = [c \in Calls |-> 0]
  /\ quotaContext = [c \in Calls |-> NoQuota]
  /\ timer = [c \in Calls |-> 0]
  /\ result = [c \in Calls |-> NoResult]
  /\ cooldownAtStart = [c \in Calls |-> FALSE]
  /\ startRemaining = [c \in Calls |-> 0]
  /\ mcRemaining = [c \in Calls |-> 0]
  /\ startAborted = [c \in Calls |-> FALSE]
  /\ earlyFetch = [c \in Calls |-> FALSE]
  /\ mcJustEnded = NoKey
  /\ mcStart = [c \in Calls |-> FALSE]
  /\ mcEarly = [c \in Calls |-> FALSE]
  /\ respLog = << >>
  /\ waitLog = << >>

KeyOf(c) == buildRetryThrottleKey(url[c], body[c])

(***************************************************************************)
(* The retry engine: fetchWithRetry.                                       *)
(***************************************************************************)
\* a faulty variant: the cooldown is never waited for
CooldownAppliesNever(until, sig) == FALSE

\* waitForRetryCooldown: the wait is taken when an entry exists, it is not
\* yet over and the signal is not aborted
CooldownApplies(until, sig) == until # 0 /\ until > 0 /\ ~sig

\* a faulty variant: the entry is overwritten, an earlier deadline replacing a later one
setRetryCooldownOverwrite(map, key, delayMs) == [map EXCEPT ![key] = delayMs]

\* setRetryCooldown: the later of the current entry and Date.now() + delayMs
setRetryCooldown(map, key, delayMs) ==
  [map EXCEPT ![key] = Max(map[key], delayMs)]

\* retryCooldownByKey.delete(key)
deleteRetryCooldown(map, key) == [map EXCEPT ![key] = 0]

\* a faulty variant: the boundary test is off by one
AtAttemptLimitLate(a) == a > DEFAULT_MAX_ATTEMPTS

\* the retry boundary of the loop: attempt >= DEFAULT_MAX_ATTEMPTS
AtAttemptLimit(a) == a >= DEFAULT_MAX_ATTEMPTS

\* the abort test made before a retry is scheduled: retryInit.signal?.aborted
AbortedBeforeRetry(sig) == sig

\* a faulty variant: no default cooldown after a terminal capacity error
TerminalCapacityCooldownMsNone(q) == OrDefault(q.retryDelayMs, 0)

\* the cooldown applied after a terminal MODEL_CAPACITY_EXHAUSTED
TerminalCapacityCooldownMs(q) == OrDefault(q.retryDelayMs, MODEL_CAPACITY_COOLDOWN_MS)

\* the call is over: its loop state is dropped
Finish(c, res) ==
  /\ result' = [result EXCEPT ![c] = res]
  /\ pc' = [pc EXCEPT ![c] = "done"]
  /\ attempt' = [attempt EXCEPT ![c] = 0]
  /\ resp' = [resp EXCEPT ![c] = 0]
  /\ quotaContext' = [quotaContext EXCEPT ![c] = NoQuota]

ReturnResponse(c, r) == Finish(c, [kind |-> "response", resp |-> r, err |-> ""])

\* a faulty variant: the error is swallowed
ThrowErrorSwallowed(c, e) == Finish(c, [kind |-> "response", resp |-> 0, err |-> ""])

\* throw error
ThrowError(c, e) == Finish(c, [kind |-> "throw", resp |-> 0, err |-> e])

\* a faulty variant: the terminal flag of the classification is ignored
IsTerminalNever(q) == FALSE

\* quotaContext?.terminal
IsTerminal(q) == q.classified /\ q.terminal

\* the first fetch of a call closes its history of the wait before it
FirstFetch(c) ==
  /\ earlyFetch' = [earlyFetch EXCEPT ![c] = startRemaining[c] > 0]
  /\ mcEarly' = [mcEarly EXCEPT ![c] = mcStart[c] /\ mcRemaining[c] > 0]
  /\ startRemaining' = [startRemaining EXCEPT ![c] = 0]
  /\ mcRemaining' = [mcRemaining EXCEPT ![c] = 0]

\* fetchWithRetry up to its first suspension: the replayability test, the
\* throttle key and the synchronous part of waitForRetryCooldown; sig tells
\* whether init.signal is already aborted
StartCall(c, u, b, sig) ==
  LET key   == buildRetryThrottleKey(u, b)
      until == retryCooldownByKey[key]
  IN
  /\ RetryFrame
  /\ pc[c] = "start"
  /\ IF c = 1 THEN TRUE ELSE pc[c - 1] # "start"
  /\ url' = [url EXCEPT ![c] = u]
  /\ body' = [body EXCEPT ![c] = b]
  /\ aborted' = [aborted EXCEPT ![c] = sig]
  /\ startAborted' = [startAborted EXCEPT ![c] = sig]
  /\ cooldownAtStart' = [cooldownAtStart EXCEPT ![c] = until > 0]
  /\ mcStart' = [mcStart EXCEPT ![c] = mcJustEnded = key]
  /\ mcJustEnded' = NoKey
  /\ IF ~canRetryRequest(b)
       THEN /\ pc' = [pc EXCEPT ![c] = "inflight"]
            /\ fetches' = [fetches EXCEPT ![c] = 1]
            /\ startRemaining' = [startRemaining EXCEPT ![c] = 0]
            /\ earlyFetch' = [earlyFetch EXCEPT ![c] = 0 < until]
            /\ mcEarly' = [mcEarly EXCEPT ![c] = mcStart'[c]]
            /\ UNCHANGED << attempt, timer, retryCooldownByKey, mcRemaining >>
       ELSE /\ attempt' = [attempt EXCEPT ![c] = 1]
            /\ startRemaining' = [startRemaining EXCEPT ![c] = until]
            /\ mcRemaining' = [mcRemaining EXCEPT ![c] =
                                 IF mcJustEnded = key THEN MODEL_CAPACITY_COOLDOWN_MS
                                 ELSE 0]
            /\ UNCHANGED << fetches, earlyFetch, mcEarly >>
            /\ IF CooldownApplies(until, sig)
                 THEN /\ pc' = [pc EXCEPT ![c] = "cooldown"]
                      /\ timer' = [timer EXCEPT ![c] = until]
                      /\ UNCHANGED retryCooldownByKey
                 ELSE /\ pc' = [pc EXCEPT ![c] = "ready"]
                      /\ UNCHANGED << timer, retryCooldownByKey >>
  /\ UNCHANGED << resp, quotaContext, result >>

\* the end of waitForRetryCooldown's wait(remaining)
CooldownElapsed(c) ==
  /\ RetryFrame
  /\ pc[c] = "cooldown"
  /\ timer[c] = 0
  /\ retryCooldownByKey' = deleteRetryCooldown(retryCooldownByKey, KeyOf(c))
  /\ pc' = [pc EXCEPT ![c] = "ready"]
  /\ mcJustEnded' = NoKey
  /\ UNCHANGED << url, body, aborted, attempt, fetches, resp, quotaContext, timer,
                  result, startRemaining, mcRemaining, startAborted, cooldownAtStart,
                  earlyFetch, mcStart, mcEarly >>

\* fetch(input, retryInit): inside the loop while attempt <= DEFAULT_MAX_ATTEMPTS,
\* and the fetch that follows the loop otherwise
IssueFetch(c) ==
  /\ RetryFrame
  /\ pc[c] = "ready"
  /\ fetches' = [fetches EXCEPT ![c] = @ + 1]
  /\ pc' = [pc EXCEPT ![c] = "inflight"]
  /\ mcJustEnded' = NoKey
  /\ IF fetches[c] = 0
       THEN FirstFetch(c)
       ELSE UNCHANGED << earlyFetch, mcEarly, mcRemaining, startRemaining >>
  /\ UNCHANGED << retryCooldownByKey, url, body, aborted, attempt, resp,
                  quotaContext, timer, result, startAborted, cooldownAtStart, mcStart >>

InLoop(c) == canRetryRequest(body[c]) /\ attempt[c] <= DEFAULT_MAX_ATTEMPTS

\* the fetch resolves with response r
FetchReturns(c, r) ==
  /\ RetryFrame
  /\ pc[c] = "inflight"
  /\ mcJustEnded' = NoKey
  /\ IF ~InLoop(c) \/ ~isRetryableStatus(RetryResponses[r].status)
       THEN ReturnResponse(c, r)
       ELSE IF RetryResponses[r].status = 429
         THEN /\ pc' = [pc EXCEPT ![c] = "classify"]
              /\ resp' = [resp EXCEPT ![c] = r]
              /\ UNCHANGED << result, attempt, quotaContext >>
         ELSE IF AtAttemptLimit(attempt[c]) \/ AbortedBeforeRetry(aborted[c])
           THEN ReturnResponse(c, r)
           ELSE /\ pc' = [pc EXCEPT ![c] = "resolve"]
                /\ resp' = [resp EXCEPT ![c] = r]
                /\ quotaContext' = [quotaContext EXCEPT ![c] = NoQuota]
                /\ UNCHANGED << result, attempt >>
  /\ UNCHANGED << retryCooldownByKey, url, body, aborted, fetches, timer,
                  startRemaining, mcRemaining, startAborted, cooldownAtStart, earlyFetch, mcStart, mcEarly >>

\* the fetch rejects with error e
FetchThrows(c, e, j) ==
  /\ RetryFrame
  /\ pc[c] = "inflight"
  /\ e = "AbortError" => aborted[c]
  /\ mcJustEnded' = NoKey
  /\ IF ~InLoop(c) \/ AtAttemptLimit(attempt[c]) \/ ~isRetryableNetworkError(e)
          \/ AbortedBeforeRetry(aborted[c])
       THEN /\ ThrowError(c, e)
            /\ UNCHANGED timer
       ELSE /\ timer' = [timer EXCEPT ![c] = getExponentialDelayWithJitter(attempt[c], j)]
            /\ pc' = [pc EXCEPT ![c] = "backoff"]
            /\ UNCHANGED << result, attempt, resp, quotaContext >>
  /\ UNCHANGED << retryCooldownByKey, url, body, aborted, fetches,
                  startRemaining, mcRemaining, startAborted, cooldownAtStart, earlyFetch, mcStart, mcEarly >>

\* classifyQuotaResponse has read the 429 body
ClassifyDone(c) ==
  LET q == classifyQuotaResponse(RetryResponses[resp[c]])
  IN
  /\ RetryFrame
  /\ pc[c] = "classify"
  /\ IF IsTerminal(q)
       THEN /\ ReturnResponse(c, resp[c])
            /\ IF q.reason = "MODEL_CAPACITY_EXHAUSTED"
                 THEN /\ retryCooldownByKey' =
                           setRetryCooldown(retryCooldownByKey, KeyOf(c),
                                            TerminalCapacityCooldownMs(q))
                      /\ mcJustEnded' = KeyOf(c)
                 ELSE /\ UNCHANGED retryCooldownByKey
                      /\ mcJustEnded' = NoKey
       ELSE /\ UNCHANGED retryCooldownByKey
            /\ mcJustEnded' = NoKey
            /\ IF AtAttemptLimit(attempt[c]) \/ AbortedBeforeRetry(aborted[c])
                 THEN ReturnResponse(c, resp[c])
                 ELSE /\ pc' = [pc EXCEPT ![c] = "resolve"]
                      /\ quotaContext' = [quotaContext EXCEPT ![c] = q]
                      /\ UNCHANGED << result, attempt, resp >>
  /\ UNCHANGED << url, body, aborted, fetches, timer, startRemaining, mcRemaining,
                  startAborted, cooldownAtStart, earlyFetch, mcStart, mcEarly >>

\* resolveRetryDelayMs has returned: the cooldown update and the wait
ResolveDone(c, j) ==
  LET delayMs == resolveRetryDelayMs(RetryResponses[resp[c]], attempt[c],
                                     quotaContext[c].retryDelayMs, j)
  IN
  /\ RetryFrame
  /\ pc[c] = "resolve"
  /\ retryCooldownByKey' =
       IF delayMs > 0 /\ RetryResponses[resp[c]].status = 429
         THEN setRetryCooldown(retryCooldownByKey, KeyOf(c), delayMs)
         ELSE retryCooldownByKey
  /\ IF delayMs > 0
       THEN /\ pc' = [pc EXCEPT ![c] = "backoff"]
            /\ timer' = [timer EXCEPT ![c] = delayMs]
            /\ UNCHANGED attempt
       ELSE /\ pc' = [pc EXCEPT ![c] = "ready"]
            /\ attempt' = [attempt EXCEPT ![c] = @ + 1]
            /\ UNCHANGED timer
  /\ resp' = [resp EXCEPT ![c] = IF delayMs > 0 THEN @ ELSE 0]
  /\ quotaContext' = [quotaContext EXCEPT ![c] = NoQuota]
  /\ mcJustEnded' = NoKey
  /\ UNCHANGED << url, body, aborted, fetches, result, startRemaining, mcRemaining,
                  startAborted, cooldownAtStart, earlyFetch, mcStart, mcEarly >>

\* the end of wait(delayMs): attempt += 1 and back to the head of the loop
BackoffElapsed(c) ==
  /\ RetryFrame
  /\ pc[c] = "backoff"
  /\ timer[c] = 0
  /\ attempt' = [attempt EXCEPT ![c] = @ + 1]
  /\ resp' = [resp EXCEPT ![c] = 0]
  /\ pc' = [pc EXCEPT ![c] = "ready"]
  /\ mcJustEnded' = NoKey
  /\ UNCHANGED << retryCooldownByKey, url, body, aborted, fetches,
                  quotaContext, timer, result, startRemaining, mcRemaining,
                  startAborted, cooldownAtStart, earlyFetch, mcStart, mcEarly >>

\* the caller aborts the signal of the call
Abort(c) ==
  /\ RetryFrame
  /\ pc[c] \notin { "start", "done" }
  /\ ~aborted[c]
  /\ aborted' = [aborted EXCEPT ![c] = TRUE]
  /\ UNCHANGED << retryCooldownByKey, pc, url, body, attempt, fetches, resp,
                  quotaContext, timer, result, startRemaining, mcRemaining,
                  startAborted, cooldownAtStart, earlyFetch, mcJustEnded, mcStart, mcEarly >>

\* the clock: time passes up to the next timer or cooldown deadline
Deadlines ==
  { timer[c] : c \in Calls } \cup { retryCooldownByKey[k] : k \in ThrottleKeys }

Tick(d) ==
  /\ RetryFrame
  /\ d > 0
  /\ timer' = [c \in Calls |-> Max(0, timer[c] - d)]
  /\ retryCooldownByKey' = [k \in ThrottleKeys |-> Max(0, retryCooldownByKey[k] - d)]
  /\ startRemaining' = [c \in Calls |-> Max(0, startRemaining[c] - d)]
  /\ mcRemaining' = [c \in Calls |-> Max(0, mcRemaining[c] - d)]
  /\ mcJustEnded' = NoKey
  /\ UNCHANGED << pc, url, body, aborted, attempt, fetches, resp, quotaContext,
                  result, startAborted, cooldownAtStart, earlyFetch, mcStart, mcEarly >>

NextRetry ==
  \/ \E c \in Calls, u \in Urls, b \in RequestBodies, sig \in BOOLEAN :
       StartCall(c, u, b, sig) /\ UNCHANGED logVars
  \/ \E c \in Calls : CooldownElapsed(c) /\ UNCHANGED logVars
  \/ \E c \in Calls : IssueFetch(c) /\ UNCHANGED logVars
  \/ \E c \in Calls, r \in RespIds : FetchReturns(c, r) /\ UNCHANGED logVars
  \/ \E c \in Calls, e \in NetworkErrors, j \in JitterPct :
       FetchThrows(c, e, j) /\ UNCHANGED logVars
  \/ \E c \in Calls : ClassifyDone(c) /\ UNCHANGED logVars
  \/ \E c \in Calls, j \in JitterPct : ResolveDone(c, j) /\ UNCHANGED logVars
  \/ \E c \in Calls : BackoffElapsed(c) /\ UNCHANGED logVars
  \/ \E c \in Calls : Abort(c) /\ UNCHANGED logVars
  \/ \E d \in Deadlines : Tick(d) /\ UNCHANGED logVars

(***************************************************************************)
(* One fetchWithRetry call on its own, given every response of             *)
(* RetryResponses; the outcome of each fetch and each delay are logged.    *)
(***************************************************************************)
\* the transport errors given to the single call: two retryable ones, one
\* that is not, and the abort of the signal
SingleCallErrors == { "ECONNRESET", "fetch failed", "EACCES", "AbortError" }

Outcome(r, e) == [resp |-> r, err |-> e]

\* the delay the call is about to wait, 0 when it waits for nothing
Waiting == IF pc'[1] = "backoff" THEN timer'[1] ELSE 0

SingleStart(b, sig) == StartCall(1, "u1", b, sig) /\ UNCHANGED logVars

SingleIssueFetch == IssueFetch(1) /\ UNCHANGED logVars

SingleFetchReturns(r) ==
  /\ FetchReturns(1, r)
  /\ respLog' = Append(respLog, Outcome(r, ""))
  /\ UNCHANGED waitLog

SingleFetchThrows(e, j) ==
  /\ FetchThrows(1, e, j)
  /\ respLog' = Append(respLog, Outcome(0, e))
  /\ waitLog' = IF pc'[1] = "backoff" THEN Append(waitLog, Waiting) ELSE waitLog

SingleClassifyDone == ClassifyDone(1) /\ UNCHANGED logVars

SingleResolveDone(j) ==
  /\ ResolveDone(1, j)
  /\ waitLog' = Append(waitLog, Waiting)
  /\ UNCHANGED respLog

SingleBackoffElapsed == BackoffElapsed(1) /\ UNCHANGED logVars

SingleAbort == Abort(1) /\ UNCHANGED logVars

SingleTick(d) == Tick(d) /\ UNCHANGED logVars

NextSingleCall ==
  \/ \E b \in RequestBodies, sig \in BOOLEAN : SingleStart(b, sig)
  \/ SingleIssueFetch
  \/ \E r \in DOMAIN RetryResponses : SingleFetchReturns(r)
  \/ \E e \in SingleCallErrors, j \in JitterPct : SingleFetchThrows(e, j)
  \/ SingleClassifyDone
  \/ \E j \in JitterPct : SingleResolveDone(j)
  \/ SingleBackoffElapsed
  \/ SingleAbort
  \/ \E d \in Deadlines : SingleTick(d)

(***************************************************************************)
(* The project context caches (plugin/project/context.ts).  A cache key is *)
(* the record of its base (the credential's refresh string) and of the     *)
(* configured project id of its "|cfg:" suffix ("" when it has none).      *)
(***************************************************************************)
EmptyMap == << >>

\* a faulty variant: nothing is deleted
MapRemoveNone(m, ks) == m

\* Map.delete for each key of ks
MapRemove(m, ks) == [k \in DOMAIN m \ ks |-> m[k]]

MapPut(m, key, v) == [k \in DOMAIN m \cup { key } |-> IF k = key THEN v ELSE m[k]]

CacheKey(base, cfg) == [base |-> base, cfg |-> cfg]

NoCacheKey == CacheKey(<< >>, "")

\* the refresh string of the auth, or none when it is empty
getCacheKey(auth) == IF auth.refresh = << >> THEN NoCacheKey ELSE CacheKey(auth.refresh, "")

buildProjectCacheKey(auth, configuredProjectId) ==
  IF getCacheKey(auth) = NoCacheKey THEN NoCacheKey
  ELSE CacheKey(auth.refresh, configuredProjectId)

\* a faulty variant: the keys with a "|cfg:" suffix are left in the cache
InvalidatedKeysExact(m, refresh) ==
  IF refresh = << >> THEN DOMAIN m
  ELSE { k \in DOMAIN m : k.base = refresh /\ k.cfg = "" }

\* the keys invalidateProjectContextCache(refresh) deletes from a cache:
\* all of them without an argument, else the key equal to refresh and the
\* keys that start with refresh followed by "|cfg:"
InvalidatedKeys(m, refresh) ==
  IF refresh = << >> THEN DOMAIN m ELSE { k \in DOMAIN m : k.base = refresh }

invalidateProjectContextCache(refresh) ==
  /\ projectContextPendingCache' =
       MapRemove(projectContextPendingCache,
                 InvalidatedKeys(projectContextPendingCache, refresh))
  /\ projectContextResultCache' =
       MapRemove(projectContextResultCache,
                 InvalidatedKeys(projectContextResultCache, refresh))
  /\ invalidatedInFlight' =
       invalidatedInFlight \cup InvalidatedKeys(projectContextPendingCache, refresh)
  /\ resolvedFor' = {}

(***************************************************************************)
(* Token refresh (refreshAccessToken and the functions it calls).          *)
(***************************************************************************)
RefreshCalls == 1..NumRefreshCalls

RefreshTokens == { "rt1", "rt2" }

\* the refresh strings the calls are made with; "" has no refresh token
RefreshStrings == { << "rt1" >>, << "rt1", "p1" >>, << "rt2", "", "m1" >>, << >> }

RotatedToken == "rt9"

\* what the token endpoint reports as the lifetime of an access token
ExpiresInSec == 3600

TokenResponse(status, code, refresh_token) ==
  [status |-> status, ok |-> status >= 200 /\ status < 300, code |-> code,
   refresh_token |-> refresh_token, expires_in |-> ExpiresInSec]

\* the answers of the token endpoint: success without, with the same and
\* with a rotated refresh_token; revocation; another OAuth error; a 5xx
TokenResponses ==
  << TokenResponse(200, "", "absent"),
     TokenResponse(200, "", "same"),
     TokenResponse(200, "", "rotated"),
     TokenResponse(400, "invalid_grant", "absent"),
     TokenResponse(400, "invalid_request", "absent"),
     TokenResponse(503, "", "absent"),
     TokenResponse(429, "", "absent"),
     TokenResponse(500, "", "absent"),
     TokenResponse(404, "", "absent") >>

\* the answers the concurrent calls are given: all but the last three
TokenRespIds == 1..6

NoAuth == OAuth(<< >>, 0, 0)

Pending(auth) == [kind |-> "pending", auth |-> auth]

Undefined == [kind |-> "undefined", auth |-> NoAuth]

Rejected == [kind |-> "rejected", auth |-> NoAuth]

Resolved(auth) == [kind |-> "auth", auth |-> auth]

NoOutcome == [kind |-> "none", auth |-> NoAuth]

\* the stages of refreshAccessTokenInternal before its promise settles
ChainStages == { "fetch", "wait", "readError", "clearStore", "readJson", "persist" }

InitToken ==
  /\ refreshInFlight = [t \in RefreshTokens |-> 0]
  /\ rpc = [r \in RefreshCalls |-> "idle"]
  /\ rauth = [r \in RefreshCalls |-> NoAuth]
  /\ rattempt = [r \in RefreshCalls |-> 0]
  /\ tokenResp = [r \in RefreshCalls |-> 0]
  /\ chainOf = [r \in RefreshCalls |-> 0]
  /\ chainResult = [r \in RefreshCalls |-> NoOutcome]
  /\ rresult = [r \in RefreshCalls |-> NoOutcome]
  /\ chainEnd = [r \in RefreshCalls |-> ""]
  /\ authSetCalls = [r \in RefreshCalls |-> 0]
  /\ authStore = NoAuth
  /\ authCache = {}
  /\ tokenLog = << >>

\* ./cache: drop the entry of a refresh string, store an auth under its own
clearCachedAuth(cache, refresh) == { e \in cache : e.refresh # refresh }

storeCachedAuth(cache, auth) == clearCachedAuth(cache, auth.refresh) \cup { auth }

\* a faulty variant: a pending promise is not looked for
NoPendingRefresh(map, token) == 0

\* refreshInFlight.get: a pending promise makes the call join it
PendingRefresh(map, token) == map[token]

\* a faulty variant: the exception is passed on
CatchUnexpectedRethrows(outcome) == outcome

\* the catch of refreshAccessTokenInternal turns every exception into undefined
CatchUnexpected(outcome) == IF outcome.kind = "rejected" THEN Undefined ELSE outcome

\* the refresh token of the payload, the presented one when it has none
PayloadRefreshToken(response, parts) ==
  IF response.refresh_token = "rotated" THEN RotatedToken ELSE parts.refreshToken

\* a faulty variant: the credential is persisted after every exchange
ShouldPersistAlways(refreshedToken, presentedToken) == TRUE

\* the credential is persisted only when the refresh token changed
ShouldPersist(refreshedToken, presentedToken) == refreshedToken # presentedToken

InTokenLoop(a) == a <= DEFAULT_MAX_ATTEMPTS

TokenFrame == UNCHANGED << retryVars, exchangeVars, logVars, projectLogVars, pluginVars >>

ProjectCachesUnchanged ==
  UNCHANGED << projectContextResultCache, projectContextPendingCache, invalidatedInFlight,
               resolvedFor >>

ProjectCallsUnchanged ==
  UNCHANGED << ppc, pauth, pcfg, pkey, pjoined, pupdated, polls, loads,
               presolution, presult >>

\* the access token the token endpoint issues to the exchange of call r
AccessIssuedTo(r) == r

\* the promise of refreshAccessTokenInternal settles
Settle(r, outcome) ==
  /\ chainResult' = [chainResult EXCEPT ![r] = outcome]
  /\ rpc' = [rpc EXCEPT ![r] = "settled"]

\* refreshAccessToken up to its first suspension: an empty refresh token
\* gives undefined, a pending promise is returned, else the exchange starts
\* with the first fetch of fetchTokenRefresh and the promise is registered
RefreshStart(r, s) ==
  LET parts   == parseRefreshParts(s)
      pending == PendingRefresh(refreshInFlight, parts.refreshToken)
  IN
  /\ TokenFrame
  /\ rpc[r] = "idle"
  /\ IF r = 1 THEN TRUE ELSE rpc[r - 1] # "idle"
  /\ rauth' = [rauth EXCEPT ![r] = OAuth(s, 0, 0)]
  /\ IF parts.refreshToken = ""
       THEN /\ rpc' = [rpc EXCEPT ![r] = "done"]
            /\ rresult' = [rresult EXCEPT ![r] = Undefined]
            /\ UNCHANGED << refreshInFlight, chainOf, chainResult, rattempt >>
       ELSE IF pending # 0
         THEN /\ rpc' = [rpc EXCEPT ![r] = "joined"]
              /\ chainOf' = [chainOf EXCEPT ![r] = pending]
              /\ UNCHANGED << refreshInFlight, chainResult, rattempt, rresult >>
         ELSE /\ rpc' = [rpc EXCEPT ![r] = "fetch"]
              /\ chainOf' = [chainOf EXCEPT ![r] = r]
              /\ chainResult' = [chainResult EXCEPT ![r] = Pending(NoAuth)]
              /\ rattempt' = [rattempt EXCEPT ![r] = 1]
              /\ refreshInFlight' = [refreshInFlight EXCEPT ![parts.refreshToken] = r]
              /\ UNCHANGED rresult
  /\ UNCHANGED << tokenResp, chainEnd, authSetCalls, authStore, authCache >>
  /\ ProjectCachesUnchanged
  /\ ProjectCallsUnchanged

\* fetchTokenRefresh: the token endpoint answers; the answer is returned
\* unless its status is retryable and attempts are left
TokenFetchReturns(r, i) ==
  /\ TokenFrame
  /\ rpc[r] = "fetch"
  /\ IF ~InTokenLoop(rattempt[r]) \/ ~isRetryableStatus(TokenResponses[i].status)
        \/ AtAttemptLimit(rattempt[r])
       THEN /\ tokenResp' = [tokenResp EXCEPT ![r] = i]
            /\ rattempt' = [rattempt EXCEPT ![r] = 0]
            /\ rpc' = [rpc EXCEPT ![r] = IF TokenResponses[i].ok THEN "readJson"
                                         ELSE "readError"]
       ELSE /\ rpc' = [rpc EXCEPT ![r] = "wait"]
            /\ UNCHANGED << tokenResp, rattempt >>
  /\ UNCHANGED << refreshInFlight, rauth, chainOf, chainResult, rresult, chainEnd,
                  authSetCalls, authStore, authCache >>
  /\ ProjectCachesUnchanged
  /\ ProjectCallsUnchanged

\* fetchTokenRefresh: fetch throws; the last attempt and a non-transient
\* error leave fetchTokenRefresh and end in the catch of the caller
TokenFetchThrows(r, e) ==
  /\ TokenFrame
  /\ rpc[r] = "fetch"
  /\ IF ~InTokenLoop(rattempt[r]) \/ AtAttemptLimit(rattempt[r])
        \/ ~isRetryableNetworkError(e)
       THEN /\ Settle(r, CatchUnexpected(Rejected))
            /\ chainEnd' = [chainEnd EXCEPT ![r] = "threw"]
            /\ rattempt' = [rattempt EXCEPT ![r] = 0]
       ELSE /\ rpc' = [rpc EXCEPT ![r] = "wait"]
            /\ UNCHANGED << chainResult, chainEnd, rattempt >>
  /\ UNCHANGED << refreshInFlight, rauth, tokenResp, chainOf, rresult, authSetCalls,
                  authStore, authCache >>
  /\ ProjectCachesUnchanged
  /\ ProjectCallsUnchanged

\* fetchTokenRefresh: the retry delay is over, the next fetch is issued
TokenRetry(r) ==
  /\ TokenFrame
  /\ rpc[r] = "wait"
  /\ rattempt' = [rattempt EXCEPT ![r] = @ + 1]
  /\ rpc' = [rpc EXCEPT ![r] = "fetch"]
  /\ UNCHANGED << refreshInFlight, rauth, tokenResp, chainOf, chainResult, rresult,
                  chainEnd, authSetCalls, authStore, authCache >>
  /\ ProjectCachesUnchanged
  /\ ProjectCallsUnchanged

\* the body of a non-OK answer has been read (or could not be read);
\* invalid_grant clears the caches and writes the emptied credential
ReadErrorDone(r, readable) ==
  LET code == IF readable THEN TokenResponses[tokenResp[r]].code ELSE ""
  IN
  /\ TokenFrame
  /\ rpc[r] = "readError"
  /\ tokenResp' = [tokenResp EXCEPT ![r] = 0]
  /\ IF code = "invalid_grant"
       THEN /\ authCache' = clearCachedAuth(authCache, rauth[r].refresh)
            /\ invalidateProjectContextCache(rauth[r].refresh)
            /\ authSetCalls' = [authSetCalls EXCEPT ![r] = @ + 1]
            /\ rpc' = [rpc EXCEPT ![r] = "clearStore"]
            /\ chainEnd' = [chainEnd EXCEPT ![r] = "revoked"]
            /\ UNCHANGED chainResult
       ELSE /\ Settle(r, Undefined)
            /\ chainEnd' = [chainEnd EXCEPT ![r] = "notOk"]
            /\ UNCHANGED << authCache, authSetCalls >>
            /\ ProjectCachesUnchanged
  /\ UNCHANGED << refreshInFlight, rauth, rattempt, chainOf, rresult, authStore >>
  /\ ProjectCallsUnchanged

\* client.auth.set of the emptied credential returns or throws
ClearStoreDone(r, stored) ==
  LET parts == parseRefreshParts(rauth[r].refresh)
      clearedAuth ==
        OAuth(formatRefreshParts(Parts("", parts.projectId, parts.managedProjectId)), 0, 0)
  IN
  /\ TokenFrame
  /\ rpc[r] = "clearStore"
  /\ authStore' = IF stored THEN clearedAuth ELSE authStore
  /\ Settle(r, Undefined)
  /\ UNCHANGED << refreshInFlight, rauth, rattempt, tokenResp, chainOf, rresult,
                  chainEnd, authSetCalls, authCache >>
  /\ ProjectCachesUnchanged
  /\ ProjectCallsUnchanged

\* response.json() of an OK answer returns or throws; the caches are
\* updated and a credential with a changed refresh token is written to the
\* Auth Store
ReadJsonDone(r, parsed) ==
  LET response == TokenResponses[tokenResp[r]]
      parts == parseRefreshParts(rauth[r].refresh)
      refreshedToken == PayloadRefreshToken(response, parts)
      updatedAuth ==
        OAuth(formatRefreshParts(Parts(refreshedToken, parts.projectId,
                                       parts.managedProjectId)),
              AccessIssuedTo(r), response.expires_in * 1000)
  IN
  /\ TokenFrame
  /\ rpc[r] = "readJson"
  /\ tokenResp' = [tokenResp EXCEPT ![r] = 0]
  /\ IF ~parsed
       THEN /\ Settle(r, CatchUnexpected(Rejected))
            /\ chainEnd' = [chainEnd EXCEPT ![r] = "badJson"]
            /\ UNCHANGED << authCache, authSetCalls >>
            /\ ProjectCachesUnchanged
       ELSE /\ authCache' = storeCachedAuth(clearCachedAuth(authCache, rauth[r].refresh),
                                            updatedAuth)
            /\ invalidateProjectContextCache(rauth[r].refresh)
            /\ chainEnd' = [chainEnd EXCEPT ![r] =
                              IF response.refresh_token = "rotated" THEN "rotated"
                              ELSE "unchanged"]
            /\ IF ShouldPersist(refreshedToken, parts.refreshToken)
                 THEN /\ authSetCalls' = [authSetCalls EXCEPT ![r] = @ + 1]
                      /\ chainResult' = [chainResult EXCEPT ![r] = Pending(updatedAuth)]
                      /\ rpc' = [rpc EXCEPT ![r] = "persist"]
                 ELSE /\ Settle(r, Resolved(updatedAuth))
                      /\ UNCHANGED authSetCalls
  /\ UNCHANGED << refreshInFlight, rauth, rattempt, chainOf, rresult, authStore >>
  /\ ProjectCallsUnchanged

\* client.auth.set of the rotated credential returns or throws
PersistDone(r, stored) ==
  /\ TokenFrame
  /\ rpc[r] = "persist"
  /\ authStore' = IF stored THEN chainResult[r].auth ELSE authStore
  /\ Settle(r, Resolved(chainResult[r].auth))
  /\ UNCHANGED << refreshInFlight, rauth, rattempt, tokenResp, chainOf, rresult,
                  chainEnd, authSetCalls, authCache >>
  /\ ProjectCachesUnchanged
  /\ ProjectCallsUnchanged

\* the owner of the promise resumes after its await: the finally block
\* removes the map entry and the settlement is handed on
RefreshFinally(r) ==
  /\ TokenFrame
  /\ rpc[r] = "settled"
  /\ refreshInFlight' =
       [refreshInFlight EXCEPT ![parseRefreshParts(rauth[r].refresh).refreshToken] = 0]
  /\ rresult' = [rresult EXCEPT ![r] = chainResult[r]]
  /\ rpc' = [rpc EXCEPT ![r] = "done"]
  /\ UNCHANGED << rauth, rattempt, tokenResp, chainOf, chainResult, chainEnd,
                  authSetCalls, authStore, authCache >>
  /\ ProjectCachesUnchanged
  /\ ProjectCallsUnchanged

\* a call that returned the pending promise gets its settlement
JoinerReturns(r) ==
  /\ TokenFrame
  /\ rpc[r] = "joined"
  /\ chainResult[chainOf[r]].kind \in { "undefined", "auth", "rejected" }
  /\ rresult' = [rresult EXCEPT ![r] = chainResult[chainOf[r]]]
  /\ rpc' = [rpc EXCEPT ![r] = "done"]
  /\ UNCHANGED << refreshInFlight, rauth, rattempt, tokenResp, chainOf, chainResult,
                  chainEnd, authSetCalls, authStore, authCache >>
  /\ ProjectCachesUnchanged
  /\ ProjectCallsUnchanged

NextToken ==
  \/ \E r \in RefreshCalls, s \in RefreshStrings : RefreshStart(r, s)
       /\ UNCHANGED tokenLog
  \/ \E r \in RefreshCalls, i \in TokenRespIds : TokenFetchReturns(r, i)
       /\ UNCHANGED tokenLog
  \/ \E r \in RefreshCalls, e \in NetworkErrors : TokenFetchThrows(r, e)
       /\ UNCHANGED tokenLog
  \/ \E r \in RefreshCalls : TokenRetry(r)
       /\ UNCHANGED tokenLog
  \/ \E r \in RefreshCalls, readable \in BOOLEAN : ReadErrorDone(r, readable)
       /\ UNCHANGED tokenLog
  \/ \E r \in RefreshCalls, stored \in BOOLEAN : ClearStoreDone(r, stored)
       /\ UNCHANGED tokenLog
  \/ \E r \in RefreshCalls, parsed \in BOOLEAN : ReadJsonDone(r, parsed)
       /\ UNCHANGED tokenLog
  \/ \E r \in RefreshCalls, stored \in BOOLEAN : PersistDone(r, stored)
       /\ UNCHANGED tokenLog
  \/ \E r \in RefreshCalls : RefreshFinally(r)
       /\ UNCHANGED tokenLog
  \/ \E r \in RefreshCalls : JoinerReturns(r)
       /\ UNCHANGED tokenLog

(***************************************************************************)
(* Project context resolution (ensureProjectContext and the functions it   *)
(* calls).                                                                 *)
(***************************************************************************)
FREE_TIER_ID == "free-tier"

LEGACY_TIER_ID == "legacy-tier"

\* onboardManagedProject: the default number of polls of the operation
OnboardAttempts == 10

\* the arguments of the calls: auth.refresh, auth.access (0: none) and the
\* configured project id
ProjectInput(refresh, access, cfg) == [refresh |-> refresh, access |-> access, cfg |-> cfg]

ProjectInputs ==
  { ProjectInput(<< "rt1" >>, 1, ""),
    ProjectInput(<< "rt1" >>, 1, "cfgA"),
    ProjectInput(<< "rt1", "p1" >>, 1, ""),
    ProjectInput(<< "rt1", "", "m1" >>, 1, ""),
    ProjectInput(<< "rt1" >>, 0, ""),
    ProjectInput(<< >>, 1, "") }

\* the refresh strings invalidateProjectContextCache is called with
InvalidatedRefreshStrings == { << "rt1" >>, << "rt1", "", "m1" >>, << >> }

\* a project id of a payload: absent, a string or an object with an id; id
\* is the text without the surrounding whitespace
ProjectValue(form, id) == [form |-> form, id |-> id]

NoProject == ProjectValue("none", "")

\* the trimmed id of a string or of an object, "" (undefined) without one
normalizeProjectId(value) == IF value.form = "none" THEN "" ELSE value.id

Tier(id, isDefault) == [id |-> id, isDefault |-> isDefault]

\* ineligible is the text buildIneligibleTierMessage makes of ineligibleTiers:
\* their reason messages, "" (undefined) when there is none
LoadPayload(project, currentTier, allowedTiers) ==
  [loaded |-> TRUE, cloudaicompanionProject |-> project, currentTier |-> currentTier,
   allowedTiers |-> allowedTiers, ineligible |-> ""]

\* loadManagedProject returned null: the request failed or was refused
NoLoadPayload ==
  [loaded |-> FALSE, cloudaicompanionProject |-> NoProject, currentTier |-> "",
   allowedTiers |-> << >>, ineligible |-> ""]

\* what loadManagedProject returns: nothing, a managed project, a current
\* tier with a blank project, a default free tier to onboard, no tier at all
LoadPayloads ==
  { NoLoadPayload,
    LoadPayload(ProjectValue("object", "m1"), "standard-tier", << >>),
    LoadPayload(ProjectValue("string", ""), "standard-tier", << >>),
    LoadPayload(NoProject, "",
                << Tier("standard-tier", FALSE), Tier(FREE_TIER_ID, TRUE) >>),
    LoadPayload(NoProject, "", << >>) }

\* further answers of loadCodeAssist: a current tier with ineligible tiers
\* that give a reason, allowed tiers whose default or, without a default,
\* first tier is not the free tier, a first tier without an id, and such
\* tiers next to a managed project
MoreLoadPayloads ==
  { [LoadPayload(NoProject, "standard-tier", << >>)
       EXCEPT !.ineligible = "Not eligible: region"],
    LoadPayload(NoProject, "",
                << Tier(FREE_TIER_ID, FALSE), Tier("standard-tier", TRUE) >>),
    LoadPayload(NoProject, "",
                << Tier("standard-tier", FALSE), Tier(FREE_TIER_ID, FALSE) >>),
    LoadPayload(NoProject, "", << Tier("", FALSE) >>),
    LoadPayload(NoProject, "", << Tier(FREE_TIER_ID, FALSE) >>),
    LoadPayload(ProjectValue("string", "m1"), "",
                << Tier("standard-tier", TRUE) >>) }

\* what onboardUser and the polled operation answer: a refusal, a finished
\* operation with and without a project, a running operation
OnboardPayload(ok, done, name, project) ==
  [ok |-> ok, done |-> done, name |-> name, project |-> project]

OnboardPayloads ==
  { OnboardPayload(FALSE, FALSE, "", ""),
    OnboardPayload(TRUE, TRUE, "", "m2"),
    OnboardPayload(TRUE, TRUE, "", ""),
    OnboardPayload(TRUE, FALSE, "op1", ""),
    OnboardPayload(TRUE, FALSE, "", "") }

RECURSIVE FirstDefaultTier(_)
FirstDefaultTier(tiers) ==
  IF tiers = << >> THEN Tier("", FALSE)
  ELSE IF Head(tiers).isDefault THEN Head(tiers)
  ELSE FirstDefaultTier(Tail(tiers))

\* a faulty variant: the first tier is taken whatever the default is
pickOnboardTierFirst(allowedTiers) ==
  IF allowedTiers = << >> THEN Tier(LEGACY_TIER_ID, FALSE) ELSE Head(allowedTiers)

\* the default tier, else the first one, else the legacy tier
pickOnboardTier(allowedTiers) ==
  IF allowedTiers = << >> THEN Tier(LEGACY_TIER_ID, FALSE)
  ELSE IF FirstDefaultTier(allowedTiers).isDefault THEN FirstDefaultTier(allowedTiers)
  ELSE Head(allowedTiers)

withProjectAuth(auth, refreshToken, projectId, managedProjectId) ==
  [auth EXCEPT !.refresh = formatRefreshParts(Parts(refreshToken, projectId,
                                                     managedProjectId))]

\* a ProjectContextResult, and the rejection of a resolution
Context(auth, effectiveProjectId) ==
  [kind |-> "value", auth |-> auth, effectiveProjectId |-> effectiveProjectId]

Failure(error) == [kind |-> "error", auth |-> NoAuth, effectiveProjectId |-> error]

NoContext == [kind |-> "none", auth |-> NoAuth, effectiveProjectId |-> ""]

\* the stages of a resolution whose promise has not run its callbacks yet
ResolutionStages == { "load", "onboard", "poll", "persist", "settled" }

ProjectCalls == 1..NumProjectCalls

InitProject ==
  /\ projectContextResultCache = EmptyMap
  /\ projectContextPendingCache = EmptyMap
  /\ ppc = [p \in ProjectCalls |-> "idle"]
  /\ pauth = [p \in ProjectCalls |-> NoAuth]
  /\ pcfg = [p \in ProjectCalls |-> ""]
  /\ pkey = [p \in ProjectCalls |-> NoCacheKey]
  /\ pjoined = [p \in ProjectCalls |-> 0]
  /\ pupdated = [p \in ProjectCalls |-> NoContext]
  /\ polls = [p \in ProjectCalls |-> 0]
  /\ loads = [p \in ProjectCalls |-> 0]
  /\ presolution = [p \in ProjectCalls |-> NoContext]
  /\ presult = [p \in ProjectCalls |-> NoContext]
  /\ invalidatedInFlight = {}
  /\ resolvedFor = {}
  /\ loadLog = << >>
  /\ projectLog = << >>

ProjectFrame ==
  UNCHANGED << retryVars, tokenVars, exchangeVars, logVars, tokenLog, pluginVars >>

\* a faulty variant: a pending promise is not looked for
NoPendingResolution(map, key) == 0

\* projectContextPendingCache.get: a pending promise is returned as it is
PendingResolution(map, key) == IF key \in DOMAIN map THEN map[key] ELSE 0

CachedContext(map, key) == IF key \in DOMAIN map THEN map[key] ELSE NoContext

\* the promise of resolveContext settles; its callbacks run later
SettleResolution(p, outcome) ==
  /\ presolution' = [presolution EXCEPT ![p] = outcome]
  /\ ppc' = [ppc EXCEPT ![p] = "settled"]
  /\ polls' = [polls EXCEPT ![p] = 0]
  /\ pupdated' = [pupdated EXCEPT ![p] = NoContext]

\* a faulty variant: only a configured or stored project id counts
HasProjectExplicit(projectId, managedProjectId) == projectId # ""

\* projectId || parts.managedProjectId
HasProject(projectId, managedProjectId) == projectId # "" \/ managedProjectId # ""

\* a faulty variant: the failure of the request reaches the caller
AbsorbedRethrown(cause) == Failure(cause)

\* loadManagedProject and onboardManagedProject catch what their requests
\* throw and return nothing for it and for a refusal; the resolver then
\* throws ProjectIdRequiredError
Absorbed(cause) == Failure("ProjectIdRequiredError")

\* onboardManagedProject: the default delay before each poll
OnboardDelayMs == 5000

\* a faulty variant: the delay doubles with every poll
PollDelayMsDoubling(poll) == OnboardDelayMs * Pow2(poll)

\* wait(delayMs) in the poll loop, the polls counted from 0
PollDelayMs(poll) == OnboardDelayMs

\* resolveProjectContextFromAccessToken up to its first suspension: a
\* configured, stored or managed project id settles it at once, else
\* loadManagedProject is called
StartResolution(p, auth, cfg) ==
  LET parts     == parseRefreshParts(auth.refresh)
      projectId == IF cfg # "" THEN cfg ELSE parts.projectId
  IN
  IF HasProject(projectId, parts.managedProjectId)
    THEN /\ SettleResolution(p, Context(auth, IF projectId # "" THEN projectId
                                               ELSE parts.managedProjectId))
         /\ UNCHANGED loads
    ELSE /\ ppc' = [ppc EXCEPT ![p] = "load"]
         /\ loads' = [loads EXCEPT ![p] = @ + 1]
         /\ UNCHANGED << presolution, polls, pupdated >>

\* ensureProjectContext up to its first suspension
EnsureStart(p, in) ==
  LET auth    == OAuth(in.refresh, in.access, 0)
      key     == buildProjectCacheKey(auth, in.cfg)
      cached  == CachedContext(projectContextResultCache, key)
      pending == PendingResolution(projectContextPendingCache, key)
  IN
  /\ ProjectFrame
  /\ ppc[p] = "idle"
  /\ IF p = 1 THEN TRUE ELSE ppc[p - 1] # "idle"
  /\ pauth' = [pauth EXCEPT ![p] = auth]
  /\ pcfg' = [pcfg EXCEPT ![p] = in.cfg]
  /\ IF in.access = 0
       THEN /\ presult' = [presult EXCEPT ![p] = Context(auth, "")]
            /\ ppc' = [ppc EXCEPT ![p] = "done"]
            /\ UNCHANGED << pkey, pjoined, projectContextPendingCache, presolution,
                            polls, pupdated, loads >>
       ELSE IF key # NoCacheKey /\ cached # NoContext
         THEN /\ presult' = [presult EXCEPT ![p] = cached]
              /\ ppc' = [ppc EXCEPT ![p] = "done"]
              /\ pkey' = [pkey EXCEPT ![p] = key]
              /\ UNCHANGED << pjoined, projectContextPendingCache, presolution,
                              polls, pupdated, loads >>
       ELSE IF key # NoCacheKey /\ pending # 0
         THEN /\ pjoined' = [pjoined EXCEPT ![p] = pending]
              /\ ppc' = [ppc EXCEPT ![p] = "joined"]
              /\ pkey' = [pkey EXCEPT ![p] = key]
              /\ UNCHANGED << presult, projectContextPendingCache, presolution,
                              polls, pupdated, loads >>
         ELSE /\ StartResolution(p, auth, in.cfg)
              /\ pkey' = [pkey EXCEPT ![p] = key]
              /\ projectContextPendingCache' =
                   IF key = NoCacheKey THEN projectContextPendingCache
                   ELSE MapPut(projectContextPendingCache, key, p)
              /\ UNCHANGED << presult, pjoined >>
  /\ UNCHANGED << projectContextResultCache, invalidatedInFlight, resolvedFor, authStore >>

\* loadManagedProject returns: a managed project is adopted and persisted,
\* a current tier without a project and a tier that needs a project are
\* errors, the free tier is onboarded
LoadReturns(p, payload) ==
  LET parts            == parseRefreshParts(pauth[p].refresh)
      managedProjectId == normalizeProjectId(payload.cloudaicompanionProject)
      tier             == pickOnboardTier(payload.allowedTiers)
      tierId           == IF tier.id = "" THEN LEGACY_TIER_ID ELSE tier.id
  IN
  /\ ProjectFrame
  /\ ppc[p] = "load"
  /\ IF ~payload.loaded
       THEN SettleResolution(p, Absorbed("load"))
       ELSE IF managedProjectId # ""
         THEN /\ pupdated' = [pupdated EXCEPT ![p] =
                   Context(withProjectAuth(pauth[p], parts.refreshToken, "",
                                           managedProjectId), managedProjectId)]
              /\ ppc' = [ppc EXCEPT ![p] = "persist"]
              /\ UNCHANGED << presolution, polls >>
       ELSE IF payload.currentTier # ""
         THEN SettleResolution(p, IF payload.ineligible # ""
                                    THEN Failure(payload.ineligible)
                                    ELSE Failure("ProjectIdRequiredError"))
       ELSE IF tierId # FREE_TIER_ID
         THEN SettleResolution(p, Failure("ProjectIdRequiredError"))
         ELSE /\ ppc' = [ppc EXCEPT ![p] = "onboard"]
              /\ UNCHANGED << presolution, polls, pupdated >>
  /\ UNCHANGED << projectContextResultCache, projectContextPendingCache, pauth, pcfg,
                  pkey, pjoined, loads, presult, invalidatedInFlight, resolvedFor,
                  authStore >>

\* the end of onboardManagedProject for a payload: the project of a
\* finished operation is adopted and persisted, anything else is an error
OnboardEnds(p, payload) ==
  LET parts == parseRefreshParts(pauth[p].refresh)
  IN
  IF payload.ok /\ payload.done /\ payload.project # ""
    THEN /\ pupdated' = [pupdated EXCEPT ![p] =
              Context(withProjectAuth(pauth[p], parts.refreshToken, "", payload.project),
                      payload.project)]
         /\ ppc' = [ppc EXCEPT ![p] = "persist"]
         /\ polls' = [polls EXCEPT ![p] = 0]
         /\ UNCHANGED presolution
    ELSE SettleResolution(p, IF payload.ok THEN Failure("ProjectIdRequiredError")
                             ELSE Absorbed("onboard"))

\* onboardUser answers (or the request throws, which counts as a refusal)
OnboardReturns(p, payload) ==
  /\ ProjectFrame
  /\ ppc[p] = "onboard"
  /\ IF payload.ok /\ ~payload.done /\ payload.name # "" /\ OnboardAttempts > 0
       THEN /\ ppc' = [ppc EXCEPT ![p] = "poll"]
            /\ UNCHANGED << presolution, polls, pupdated >>
       ELSE OnboardEnds(p, payload)
  /\ UNCHANGED << projectContextResultCache, projectContextPendingCache, pauth, pcfg,
                  pkey, pjoined, loads, presult, invalidatedInFlight, resolvedFor,
                  authStore >>

\* the polled operation answers after the poll delay
PollReturns(p, payload) ==
  /\ ProjectFrame
  /\ ppc[p] = "poll"
  /\ IF payload.ok /\ ~payload.done /\ polls[p] + 1 < OnboardAttempts
       THEN /\ polls' = [polls EXCEPT ![p] = @ + 1]
            /\ UNCHANGED << ppc, presolution, pupdated >>
       ELSE OnboardEnds(p, payload)
  /\ UNCHANGED << projectContextResultCache, projectContextPendingCache, pauth, pcfg,
                  pkey, pjoined, loads, presult, invalidatedInFlight, resolvedFor,
                  authStore >>

\* persistAuth: client.auth.set of the updated credential returns or throws
PersistReturns(p, stored) ==
  /\ ProjectFrame
  /\ ppc[p] = "persist"
  /\ authStore' = IF stored THEN pupdated[p].auth ELSE authStore
  /\ SettleResolution(p, IF stored THEN pupdated[p] ELSE Failure("StoreError"))
  /\ UNCHANGED << projectContextResultCache, projectContextPendingCache, pauth, pcfg,
                  pkey, pjoined, loads, presult, invalidatedInFlight, resolvedFor >>

\* the callbacks of ensureProjectContext: the pending entry of the cache key
\* is deleted, a result is cached under the key of the auth it carries; a
\* call without a cache key hands the settlement on as it is
ResolutionCallback(p) ==
  LET outcome == presolution[p]
      key     == pkey[p]
      nextKey == IF getCacheKey(outcome.auth) # NoCacheKey THEN getCacheKey(outcome.auth)
                 ELSE key
  IN
  /\ ProjectFrame
  /\ ppc[p] = "settled"
  /\ ppc' = [ppc EXCEPT ![p] = "done"]
  /\ presult' = [presult EXCEPT ![p] = outcome]
  /\ presolution' = [presolution EXCEPT ![p] = NoContext]
  /\ projectContextPendingCache' =
       IF key = NoCacheKey THEN projectContextPendingCache
       ELSE MapRemove(projectContextPendingCache, { key })
  /\ projectContextResultCache' =
       IF key = NoCacheKey \/ outcome.kind = "error" THEN projectContextResultCache
       ELSE MapRemove(MapPut(projectContextResultCache, nextKey, outcome),
                      { key } \ { nextKey })
  /\ invalidatedInFlight' =
       IF \E q \in ProjectCalls : q # p /\ ppc[q] \in ResolutionStages /\ pkey[q] = key
         THEN invalidatedInFlight
         ELSE invalidatedInFlight \ { key }
  /\ resolvedFor' =
       IF key = NoCacheKey \/ outcome.kind = "error" THEN resolvedFor
       ELSE resolvedFor \cup { key }
  /\ UNCHANGED << pauth, pcfg, pkey, pjoined, pupdated, polls, loads, authStore >>

\* a call that returned the pending promise gets its settlement
JoinedReturns(p) ==
  /\ ProjectFrame
  /\ ppc[p] = "joined"
  /\ ppc[pjoined[p]] = "done"
  /\ presult' = [presult EXCEPT ![p] = presult[pjoined[p]]]
  /\ ppc' = [ppc EXCEPT ![p] = "done"]
  /\ UNCHANGED << projectContextResultCache, projectContextPendingCache, pauth, pcfg,
                  pkey, pjoined, pupdated, polls, loads, presolution,
                  invalidatedInFlight, resolvedFor, authStore >>

\* invalidateProjectContextCache is called, as the token refresh does after
\* every exchange that succeeded or was revoked
Invalidate(refresh) ==
  /\ ProjectFrame
  /\ invalidateProjectContextCache(refresh)
  /\ UNCHANGED << ppc, pauth, pcfg, pkey, pjoined, pupdated, polls, loads,
                  presolution, presult, authStore >>

NextProject ==
  \/ \E p \in ProjectCalls, in \in ProjectInputs : EnsureStart(p, in)
       /\ UNCHANGED projectLogVars
  \/ \E p \in ProjectCalls, payload \in LoadPayloads : LoadReturns(p, payload)
       /\ UNCHANGED projectLogVars
  \/ \E p \in ProjectCalls, payload \in OnboardPayloads : OnboardReturns(p, payload)
       /\ UNCHANGED projectLogVars
  \/ \E p \in ProjectCalls, payload \in OnboardPayloads : PollReturns(p, payload)
       /\ UNCHANGED projectLogVars
  \/ \E p \in ProjectCalls, stored \in BOOLEAN : PersistReturns(p, stored)
       /\ UNCHANGED projectLogVars
  \/ \E p \in ProjectCalls : ResolutionCallback(p)
       /\ UNCHANGED projectLogVars
  \/ \E p \in ProjectCalls : JoinedReturns(p)
       /\ UNCHANGED projectLogVars
  \/ \E refresh \in InvalidatedRefreshStrings : Invalidate(refresh)
       /\ UNCHANGED projectLogVars

(***************************************************************************)
(* One ensureProjectContext call on its own, given every answer of the     *)
(* load, onboard and operation endpoints; the requests it makes and its    *)
(* Auth Store write are logged when they return.                           *)
(***************************************************************************)
AllLoadPayloads == LoadPayloads \cup MoreLoadPayloads

\* a request or write that has returned: op is "load", "onboard", "poll" or
\* "set", waited the delay that was waited before it was sent
Returned(op, waited, ok, done) == [op |-> op, waited |-> waited, ok |-> ok, done |-> done]

SingleEnsureStart(in) == EnsureStart(1, in) /\ UNCHANGED projectLogVars

SingleLoadReturns(payload) ==
  /\ LoadReturns(1, payload)
  /\ loadLog' = Append(loadLog, payload)
  /\ projectLog' = Append(projectLog, Returned("load", 0, payload.loaded, TRUE))

SingleOnboardReturns(payload) ==
  /\ OnboardReturns(1, payload)
  /\ projectLog' = Append(projectLog, Returned("onboard", 0, payload.ok, payload.done))
  /\ UNCHANGED loadLog

SinglePollReturns(payload) ==
  /\ PollReturns(1, payload)
  /\ projectLog' = Append(projectLog, Returned("poll", PollDelayMs(polls[1]), payload.ok,
                                               payload.done))
  /\ UNCHANGED loadLog

SinglePersistReturns(stored) ==
  /\ PersistReturns(1, stored)
  /\ projectLog' = Append(projectLog, Returned("set", 0, stored, TRUE))
  /\ UNCHANGED loadLog

SingleResolutionCallback == ResolutionCallback(1) /\ UNCHANGED projectLogVars

NextSingleResolution ==
  \/ \E in \in ProjectInputs : SingleEnsureStart(in)
  \/ \E payload \in AllLoadPayloads : SingleLoadReturns(payload)
  \/ \E payload \in OnboardPayloads : SingleOnboardReturns(payload)
  \/ \E payload \in OnboardPayloads : SinglePollReturns(payload)
  \/ \E stored \in BOOLEAN : SinglePersistReturns(stored)
  \/ SingleResolutionCallback

(***************************************************************************)
(* The authorization code exchange (gemini/oauth.ts,                       *)
(* exchangeGeminiWithVerifier).  consumedExchanges keeps, instead of the   *)
(* time a pair was consumed, the time that has passed since.               *)
(***************************************************************************)
NumExchangeCalls == 3

AUTHORIZATION_CODE_REPLAY_TTL_MS == 600000

\* the step of the clock and the age after which time is not counted on
ExchangeTickMs == 300000

MaxExchangeAge == AUTHORIZATION_CODE_REPLAY_TTL_MS + ExchangeTickMs

ExchangeCalls == 1..NumExchangeCalls

\* the code and verifier arguments of the calls
CodeInputs == { "c1", " c1 ", "c2", "" }

VerifierInputs == { "v1", "  " }

\* String.prototype.trim on the arguments above
Trim(s) ==
  CASE s = " c1 " -> "c1"
    [] s = "  " -> ""
    [] OTHER -> s

\* the digest of code, a zero byte and verifier: one key per pair
buildExchangeKey(code, verifier) == << code, verifier >>

NoExchangeKey == << "", "" >>

\* what the token endpoint and the userinfo endpoint answer
ExchangeTokenResponses == { "ok", "okNoRefreshToken", "notOk", "badJson", "throws" }

UserInfoResponses == { "ok", "notOk", "throws" }

ExchangeSuccess == [type |-> "success", error |-> ""]

ExchangeFailure(error) == [type |-> "failed", error |-> error]

NoExchangeResult == [type |-> "none", error |-> ""]

AlreadySubmitted ==
  ExchangeFailure("Authorization code was already submitted. Start a new login flow.")

NoPrior == [succeeded |-> Null, failed |-> FALSE]

InitExchange ==
  /\ exchangeInFlight = EmptyMap
  /\ consumedExchanges = EmptyMap
  /\ xpc = [c \in ExchangeCalls |-> "idle"]
  /\ xkey = [c \in ExchangeCalls |-> NoExchangeKey]
  /\ xjoined = [c \in ExchangeCalls |-> 0]
  /\ xoutcome = [c \in ExchangeCalls |-> NoExchangeResult]
  /\ xfetches = [c \in ExchangeCalls |-> 0]
  /\ lastSuccess = EmptyMap
  /\ failedBefore = {}
  /\ xprior = [c \in ExchangeCalls |-> NoPrior]

ExchangeFrame ==
  UNCHANGED << retryVars, tokenVars, projectVars, logVars, tokenLog, projectLogVars,
               pluginVars, authStore >>

\* the entries older than the replay time to live are deleted
pruneConsumedExchanges(map) ==
  MapRemove(map, { k \in DOMAIN map : map[k] > AUTHORIZATION_CODE_REPLAY_TTL_MS })

\* a faulty variant: every finished exchange consumes its pair
ConsumesAlways(exchangeResult) == TRUE

\* the finally block consumes the pair of a successful exchange only
Consumes(exchangeResult) == exchangeResult.type = "success"

PendingExchange(map, key) == IF key \in DOMAIN map THEN map[key] ELSE 0

\* the call returns without having looked at the two maps
RejectArguments(c, error) ==
  /\ xoutcome' = [xoutcome EXCEPT ![c] = ExchangeFailure(error)]
  /\ xpc' = [xpc EXCEPT ![c] = "done"]
  /\ UNCHANGED << exchangeInFlight, consumedExchanges, xkey, xjoined, xfetches, xprior >>

\* exchangeGeminiWithVerifier up to its first suspension; the request to the
\* token endpoint is sent in the same step that registers the promise
ExchangeStart(c, code, verifier) ==
  LET normalizedCode     == Trim(code)
      normalizedVerifier == Trim(verifier)
      exchangeKey        == buildExchangeKey(normalizedCode, normalizedVerifier)
      consumed           == pruneConsumedExchanges(consumedExchanges)
      pending            == PendingExchange(exchangeInFlight, exchangeKey)
  IN
  /\ ExchangeFrame
  /\ xpc[c] = "idle"
  /\ IF c = 1 THEN TRUE ELSE xpc[c - 1] # "idle"
  /\ IF normalizedCode = ""
       THEN RejectArguments(c, "Missing authorization code in exchange request")
       ELSE IF normalizedVerifier = ""
         THEN RejectArguments(c, "Missing PKCE verifier for OAuth exchange")
         ELSE /\ consumedExchanges' = consumed
              /\ xkey' = [xkey EXCEPT ![c] = exchangeKey]
              /\ xprior' = [xprior EXCEPT ![c] =
                   [succeeded |-> IF exchangeKey \in DOMAIN lastSuccess
                                    THEN lastSuccess[exchangeKey] ELSE Null,
                    failed    |-> exchangeKey \in failedBefore]]
              /\ IF exchangeKey \in DOMAIN consumed
                   THEN /\ xoutcome' = [xoutcome EXCEPT ![c] = AlreadySubmitted]
                        /\ xpc' = [xpc EXCEPT ![c] = "done"]
                        /\ UNCHANGED << exchangeInFlight, xjoined, xfetches >>
                   ELSE IF pending # 0
                     THEN /\ xjoined' = [xjoined EXCEPT ![c] = pending]
                          /\ xpc' = [xpc EXCEPT ![c] = "joined"]
                          /\ UNCHANGED << exchangeInFlight, xoutcome, xfetches >>
                     ELSE /\ exchangeInFlight' = MapPut(exchangeInFlight, exchangeKey, c)
                          /\ xfetches' = [xfetches EXCEPT ![c] = @ + 1]
                          /\ xpc' = [xpc EXCEPT ![c] = "token"]
                          /\ UNCHANGED << xjoined, xoutcome >>
  /\ UNCHANGED << lastSuccess, failedBefore >>

\* the exchange promise settles; the catch handler has turned an error into
\* a failure
SettleExchange(c, exchangeResult) ==
  /\ xoutcome' = [xoutcome EXCEPT ![c] = exchangeResult]
  /\ xpc' = [xpc EXCEPT ![c] = "settled"]

\* the token endpoint answers or the request fails
ExchangeTokenReturns(c, r) ==
  /\ ExchangeFrame
  /\ xpc[c] = "token"
  /\ CASE r = "ok" -> /\ xpc' = [xpc EXCEPT ![c] = "userinfo"]
                      /\ UNCHANGED xoutcome
       [] r = "okNoRefreshToken" -> /\ xpc' = [xpc EXCEPT ![c] = "userinfoNoRefreshToken"]
                                    /\ UNCHANGED xoutcome
       [] r = "notOk" -> SettleExchange(c, ExchangeFailure("errorText"))
       [] r = "badJson" -> SettleExchange(c, ExchangeFailure("error.message"))
       [] r = "throws" -> SettleExchange(c, ExchangeFailure("error.message"))
  /\ UNCHANGED << exchangeInFlight, consumedExchanges, xkey, xjoined, xfetches,
                  lastSuccess, failedBefore, xprior >>

\* the userinfo endpoint answers or the request fails; a token payload
\* without refresh token is a failure
UserInfoReturns(c, r) ==
  /\ ExchangeFrame
  /\ xpc[c] \in { "userinfo", "userinfoNoRefreshToken" }
  /\ IF r = "throws"
       THEN SettleExchange(c, ExchangeFailure("error.message"))
       ELSE IF xpc[c] = "userinfoNoRefreshToken"
         THEN SettleExchange(c, ExchangeFailure("Missing refresh token in response"))
         ELSE SettleExchange(c, ExchangeSuccess)
  /\ UNCHANGED << exchangeInFlight, consumedExchanges, xkey, xjoined, xfetches,
                  lastSuccess, failedBefore, xprior >>

\* the finally block of the call that owns the exchange
ExchangeFinally(c) ==
  LET key == xkey[c]
  IN
  /\ ExchangeFrame
  /\ xpc[c] = "settled"
  /\ xpc' = [xpc EXCEPT ![c] = "done"]
  /\ exchangeInFlight' = MapRemove(exchangeInFlight, { key })
  /\ consumedExchanges' =
       pruneConsumedExchanges(IF Consumes(xoutcome[c])
                                THEN MapPut(consumedExchanges, key, 0)
                                ELSE consumedExchanges)
  /\ lastSuccess' = IF xoutcome[c].type = "success" THEN MapPut(lastSuccess, key, 0)
                    ELSE lastSuccess
  /\ failedBefore' = IF xoutcome[c].type = "success" THEN failedBefore
                     ELSE failedBefore \cup { key }
  /\ UNCHANGED << xkey, xjoined, xoutcome, xfetches, xprior >>

\* a call that returned the pending promise gets its settlement
ExchangeJoinerReturns(c) ==
  /\ ExchangeFrame
  /\ xpc[c] = "joined"
  /\ xpc[xjoined[c]] \in { "settled", "done" }
  /\ xpc' = [xpc EXCEPT ![c] = "done"]
  /\ xoutcome' = [xoutcome EXCEPT ![c] = xoutcome[xjoined[c]]]
  /\ UNCHANGED << exchangeInFlight, consumedExchanges, xkey, xjoined, xfetches,
                  lastSuccess, failedBefore, xprior >>

Older(map) == [k \in DOMAIN map |-> Min(map[k] + ExchangeTickMs, MaxExchangeAge)]

\* time passes
ExchangeTick ==
  /\ ExchangeFrame
  /\ \E k \in DOMAIN lastSuccess : lastSuccess[k] < MaxExchangeAge
  /\ consumedExchanges' = Older(consumedExchanges)
  /\ lastSuccess' = Older(lastSuccess)
  /\ UNCHANGED << exchangeInFlight, xpc, xkey, xjoined, xoutcome, xfetches,
                  failedBefore, xprior >>

NextExchange ==
  \/ \E c \in ExchangeCalls, code \in CodeInputs, verifier \in VerifierInputs :
       ExchangeStart(c, code, verifier)
  \/ \E c \in ExchangeCalls, r \in ExchangeTokenResponses : ExchangeTokenReturns(c, r)
  \/ \E c \in ExchangeCalls, r \in UserInfoResponses : UserInfoReturns(c, r)
  \/ \E c \in ExchangeCalls : ExchangeFinally(c)
  \/ \E c \in ExchangeCalls : ExchangeJoinerReturns(c)
  \/ ExchangeTick

(***************************************************************************)
(* One refreshAccessToken call on its own, given every answer of           *)
(* TokenResponses; the outcome of each fetch is logged.                    *)
(***************************************************************************)
\* what fetch rejects with: transient errors (reset, DNS, TLS), an error
\* without a code and one that is not transient
SingleRefreshErrors ==
  { "ECONNRESET", "ENOTFOUND", "ERR_SSL_WRONG_VERSION_NUMBER", "fetch failed", "EACCES" }

SingleRefreshStart(s) == RefreshStart(1, s) /\ UNCHANGED tokenLog

SingleTokenFetchReturns(i) ==
  /\ TokenFetchReturns(1, i)
  /\ tokenLog' = Append(tokenLog, Outcome(i, ""))

SingleTokenFetchThrows(e) ==
  /\ TokenFetchThrows(1, e)
  /\ tokenLog' = Append(tokenLog, Outcome(0, e))

SingleTokenRetry == TokenRetry(1) /\ UNCHANGED tokenLog

SingleReadErrorDone(readable) == ReadErrorDone(1, readable) /\ UNCHANGED tokenLog

SingleClearStoreDone(stored) == ClearStoreDone(1, stored) /\ UNCHANGED tokenLog

SingleReadJsonDone(parsed) == ReadJsonDone(1, parsed) /\ UNCHANGED tokenLog

SinglePersistDone(stored) == PersistDone(1, stored) /\ UNCHANGED tokenLog

SingleRefreshFinally == RefreshFinally(1) /\ UNCHANGED tokenLog

NextSingleRefresh ==
  \/ \E s \in RefreshStrings : SingleRefreshStart(s)
  \/ \E i \in DOMAIN TokenResponses : SingleTokenFetchReturns(i)
  \/ \E e \in SingleRefreshErrors : SingleTokenFetchThrows(e)
  \/ SingleTokenRetry
  \/ \E readable \in BOOLEAN : SingleReadErrorDone(readable)
  \/ \E stored \in BOOLEAN : SingleClearStoreDone(stored)
  \/ \E parsed \in BOOLEAN : SingleReadJsonDone(parsed)
  \/ \E stored \in BOOLEAN : SinglePersistDone(stored)
  \/ SingleRefreshFinally

(***************************************************************************)
(* The token refresh next to the project context resolver: two             *)
(* refreshAccessToken calls and one ensureProjectContext call that share   *)
(* the project context caches and the Auth Store.                          *)
(***************************************************************************)
NumRevocationCalls == 2

RevocationCalls == 1..NumRevocationCalls

\* the refresh strings of the credentials that are refreshed: the ones the
\* project context is resolved for
RevokedRefreshStrings == { << "rt1" >>, << "rt1", "p1" >> }

NextRevocation ==
  \/ \E r \in RevocationCalls, s \in RevokedRefreshStrings : RefreshStart(r, s)
       /\ UNCHANGED tokenLog
  \/ \E r \in RevocationCalls, i \in TokenRespIds : TokenFetchReturns(r, i)
       /\ UNCHANGED tokenLog
  \/ \E r \in RevocationCalls, e \in NetworkErrors : TokenFetchThrows(r, e)
       /\ UNCHANGED tokenLog
  \/ \E r \in RevocationCalls : TokenRetry(r)
       /\ UNCHANGED tokenLog
  \/ \E r \in RevocationCalls, readable \in BOOLEAN : ReadErrorDone(r, readable)
       /\ UNCHANGED tokenLog
  \/ \E r \in RevocationCalls, stored \in BOOLEAN : ClearStoreDone(r, stored)
       /\ UNCHANGED tokenLog
  \/ \E r \in RevocationCalls, parsed \in BOOLEAN : ReadJsonDone(r, parsed)
       /\ UNCHANGED tokenLog
  \/ \E r \in RevocationCalls, stored \in BOOLEAN : PersistDone(r, stored)
       /\ UNCHANGED tokenLog
  \/ \E r \in RevocationCalls : RefreshFinally(r)
       /\ UNCHANGED tokenLog
  \/ \E r \in RevocationCalls : JoinerReturns(r)
       /\ UNCHANGED tokenLog
  \/ \E in \in ProjectInputs : EnsureStart(1, in)
       /\ UNCHANGED projectLogVars
  \/ \E payload \in LoadPayloads : LoadReturns(1, payload)
       /\ UNCHANGED projectLogVars
  \/ \E payload \in OnboardPayloads : OnboardReturns(1, payload)
       /\ UNCHANGED projectLogVars
  \/ \E payload \in OnboardPayloads : PollReturns(1, payload)
       /\ UNCHANGED projectLogVars
  \/ \E stored \in BOOLEAN : PersistReturns(1, stored)
       /\ UNCHANGED projectLogVars
  \/ ResolutionCallback(1)
       /\ UNCHANGED projectLogVars

(***************************************************************************)
(* The fetch the loader hands to the host (plugin.ts, loader.fetch): the   *)
(* stored credential is read, resolved against the credential cache,       *)
(* checked by accessTokenExpired and refreshed when the check says so; the *)
(* access token is given to prepareGeminiRequest once the project context  *)
(* is there.  Date.now() advances while the call awaits.  The request that *)
(* is sent then goes through fetchWithRetry, modelled above.               *)
(***************************************************************************)
ACCESS_TOKEN_EXPIRY_BUFFER_MS == 60 * 1000

LoaderTickMs == 30000

MaxDateNow == 120000

\* expires of the stored credential: not a number, or a time in ms
StoredExpiries == { Null, 30000, 60000, 60001, 150000 }

StoredAuths == { OAuth(<< "rt1" >>, a, e) : a \in { 0, 1 }, e \in StoredExpiries }

\* expires_in of the token endpoint's answer, in seconds
RefreshLifetimesSec == { 30, 3600 }

\* access_token of the token endpoint's answer (0: the field is missing)
RefreshedAccessTokens == { 2, 0 }

InitLoader ==
  /\ dateNow = 0
  /\ fetchPc = "idle"
  /\ checkedAuth = NoAuth
  /\ checkedAt = Null
  /\ authRecord = NoAuth
  /\ refreshedAt = Null
  /\ bearer = 0
  /\ sentAt = Null

\* a faulty variant: a token that expires exactly at the end of the margin is
\* still taken as valid
accessTokenExpiredStrict(auth) ==
  \/ auth.access = 0
  \/ auth.expires = Null
  \/ auth.expires < dateNow + ACCESS_TOKEN_EXPIRY_BUFFER_MS

accessTokenExpired(auth) ==
  \/ auth.access = 0
  \/ auth.expires = Null
  \/ auth.expires <= dateNow + ACCESS_TOKEN_EXPIRY_BUFFER_MS

\* ./cache: the records resolveCachedAuth may hand back for a stored
\* credential, the credential itself or the cached one of its refresh string
resolveCachedAuth(cache, auth) ==
  { auth } \cup { e \in cache : e.refresh = auth.refresh }

LoaderFrame ==
  UNCHANGED << retryVars, projectVars, exchangeVars, logVars, tokenLog, projectLogVars,
               responseVars, requestVars, helperVars, authStore, refreshInFlight, rpc, rauth, rattempt, tokenResp, chainOf,
               chainResult, rresult, chainEnd, authSetCalls >>

LoaderDone == { "sent", "passthrough", "failed" }

\* fetch(input, init) up to the first await after the expiry check; a request
\* for another host and a credential that is not OAuth are passed through
LoaderFetch(generative, type, latestAuth) ==
  /\ LoaderFrame
  /\ fetchPc \in { "idle" } \cup LoaderDone
  /\ bearer' = 0
  /\ sentAt' = Null
  /\ refreshedAt' = Null
  /\ IF ~generative \/ type # "oauth"
       THEN /\ fetchPc' = "passthrough"
            /\ checkedAuth' = NoAuth
            /\ checkedAt' = Null
            /\ authRecord' = NoAuth
       ELSE \E record \in resolveCachedAuth(authCache, latestAuth) :
              /\ authRecord' = record
              /\ checkedAuth' = record
              /\ checkedAt' = dateNow
              /\ fetchPc' = IF accessTokenExpired(record) THEN "refresh"
                            ELSE IF record.access = 0 THEN "passthrough"
                            ELSE "project"
  /\ UNCHANGED << dateNow, authCache >>

\* refreshAccessToken returns undefined
LoaderRefreshFails ==
  /\ LoaderFrame
  /\ fetchPc = "refresh"
  /\ fetchPc' = "passthrough"
  /\ UNCHANGED << dateNow, checkedAuth, checkedAt, authRecord, refreshedAt, bearer, sentAt,
                  authCache >>

\* refreshAccessToken returns the updated credential: the answer's access
\* token, expires = Date.now() + expires_in * 1000, stored in the cache
LoaderRefreshReturns(access, expires_in) ==
  LET updatedAuth == OAuth(authRecord.refresh, access, dateNow + expires_in * 1000) IN
  /\ LoaderFrame
  /\ fetchPc = "refresh"
  /\ parseRefreshParts(authRecord.refresh).refreshToken # ""
  /\ authCache' = storeCachedAuth(clearCachedAuth(authCache, authRecord.refresh),
                                  updatedAuth)
  /\ authRecord' = updatedAuth
  /\ refreshedAt' = dateNow
  /\ fetchPc' = IF updatedAuth.access = 0 THEN "passthrough" ELSE "project"
  /\ UNCHANGED << dateNow, checkedAuth, checkedAt, bearer, sentAt >>

\* ensureProjectContextOrThrow returns, and prepareGeminiRequest is given
\* authRecord.access, or it throws and the call fails
LoaderProjectReturns(resolved) ==
  /\ LoaderFrame
  /\ fetchPc = "project"
  /\ IF resolved
       THEN /\ bearer' = authRecord.access
            /\ sentAt' = dateNow
            /\ fetchPc' = "sent"
       ELSE /\ fetchPc' = "failed"
            /\ UNCHANGED << bearer, sentAt >>
  /\ UNCHANGED << dateNow, checkedAuth, checkedAt, authRecord, refreshedAt, authCache >>

\* time passes
LoaderTick ==
  /\ LoaderFrame
  /\ dateNow < MaxDateNow
  /\ dateNow' = dateNow + LoaderTickMs
  /\ UNCHANGED << fetchPc, checkedAuth, checkedAt, authRecord, refreshedAt, bearer, sentAt,
                  authCache >>

NextLoader ==
  \/ \E generative \in BOOLEAN, type \in { "oauth", "api" }, latestAuth \in StoredAuths :
       LoaderFetch(generative, type, latestAuth)
  \/ LoaderRefreshFails
  \/ \E access \in RefreshedAccessTokens, expires_in \in RefreshLifetimesSec :
       LoaderRefreshReturns(access, expires_in)
  \/ \E resolved \in BOOLEAN : LoaderProjectReturns(resolved)
  \/ LoaderTick


(***************************************************************************)
(* transformGeminiResponse (request/shared.ts).  A body text is its JSON   *)
(* form and the value it denotes; JSON.parse and JSON.stringify go between *)
(* texts and values.  Of an error value the model keeps what the helpers   *)
(* of request-helpers/errors.ts read from it: the message, the delay       *)
(* extractRetryDelay finds (0: none), what extractQuotaInfo finds and      *)
(* whether extractValidationInfo finds a link.                             *)
(***************************************************************************)
NoValue == [kind |-> "none"]

\* the response member of a body: responseId ("": absent) and the
\* cachedContentTokenCount of its usageMetadata (Null: absent)
ResponseValue(responseId, cachedContentTokenCount) ==
  [kind |-> "response", responseId |-> responseId,
   cachedContentTokenCount |-> cachedContentTokenCount]

ErrorValue(message, retryDelayMs, quota, validation) ==
  [kind |-> "error", message |-> message, retryDelayMs |-> retryDelayMs,
   quota |-> quota, validation |-> validation]

ApiBody(response, error, traceId) ==
  [kind |-> "body", response |-> response, error |-> error, traceId |-> traceId]

Text(form, value) == [form |-> form, value |-> value]

\* response.body is null
NoText == Text("empty", NoValue)

ApiBodies ==
  { ApiBody(ResponseValue("", Null), NoValue, "t1"),
    ApiBody(ResponseValue("r1", 7), NoValue, "t1"),
    ApiBody(NoValue, NoValue, ""),
    ApiBody(NoValue, ErrorValue(<< "quota" >>, 1500, "retryable", FALSE), ""),
    ApiBody(NoValue, ErrorValue(<< "validate" >>, 0, "", TRUE), ""),
    ApiBody(NoValue, ErrorValue(<< "models/gemini-3-pro is not found" >>, 0, "", FALSE), ""),
    ApiBody(NoValue, ErrorValue(<< >>, 0, "", FALSE), ""),
    ApiBody(ResponseValue("", Null), ErrorValue(<< "internal" >>, 0, "", FALSE), "t1") }

\* the texts of an upstream body: an object, an array around one object,
\* JSON that is no object, text that is no JSON, and no body at all
BodyTexts ==
  { Text("object", b) : b \in ApiBodies } \cup
  { Text("array", ApiBody(ResponseValue("", Null), NoValue, "t1")),
    Text("scalar", NoValue), Text("garbage", NoValue), NoText }

ContentTypes == { "application/json; charset=UTF-8", "text/event-stream", "text/html" }

UpstreamStatuses == { 200, 403, 404, 429, 500 }

RequestedModels == { "", "gemini-2.5-flash", "gemini-3-pro-preview" }

\* a Response: status, content-type, the headers set on the copy of the
\* upstream headers, the body text, and whether it is the upstream object
HttpResponse(status, contentType, added, payload, isUpstream) ==
  [status |-> status, ok |-> status >= 200 /\ status <= 299, contentType |-> contentType,
   added |-> added, body |-> payload, isUpstream |-> isUpstream]

NoResponse == HttpResponse(0, "", {}, NoText, FALSE)

UpstreamResponses ==
  { HttpResponse(st, ct, {}, b, TRUE) :
      st \in UpstreamStatuses, ct \in ContentTypes, b \in BodyTexts }

isJsonResponse(contentType) == contentType = "application/json; charset=UTF-8"

isEventStreamResponse(contentType) == contentType = "text/event-stream"

\* JSON.parse and the array unwrapping: an object, the object inside an
\* array, or null
parseGeminiApiBody(rawText) ==
  IF rawText.form \in { "object", "array" } THEN rawText.value ELSE NoValue

JSONstringify(value) == Text("object", value)

\* what transformStreamingPayloadStream makes of the body stream
transformStreamingPayloadStream(payload) == Text("rewritten", payload)

isGeminiThreeModel(target) ==
  target \in { "gemini-3-pro-preview", "models/gemini-3-pro is not found" }

needsPreviewAccessOverride(status, payload, model) ==
  /\ status = 404
  /\ \/ isGeminiThreeModel(model)
     \/ /\ payload.error # NoValue
        /\ payload.error.message # << >>
        /\ isGeminiThreeModel(payload.error.message[1])

rewriteGeminiPreviewAccessError(payload, status, model) ==
  IF ~needsPreviewAccessOverride(status, payload, model) THEN NoValue
  ELSE LET error == IF payload.error = NoValue THEN ErrorValue(<< >>, 0, "", FALSE)
                    ELSE payload.error
           messagePrefix ==
             IF error.message # << >> THEN error.message
             ELSE << "Gemini 3 preview features are not enabled for this account." >>
       IN [payload EXCEPT !.error =
             [error EXCEPT !.message = Append(messagePrefix, "Request preview access")]]

\* the enhancement: a body with a rewritten message, and a retry delay
Enhancement(payload, retryAfterMs) == [body |-> payload, retryAfterMs |-> retryAfterMs]

NoEnhancement == Enhancement(NoValue, 0)

enhanceGeminiErrorResponse(payload, status) ==
  LET error == payload.error IN
  IF error = NoValue THEN NoEnhancement
  ELSE IF status = 403 /\ error.validation
    THEN Enhancement([payload EXCEPT !.error.message =
                        Append(error.message, "Complete validation")],
                     error.retryDelayMs)
  ELSE IF status = 429 /\ error.quota # ""
    THEN Enhancement([payload EXCEPT !.error.message =
                        IF error.quota = "retryable" THEN << "Rate limit exceeded." >>
                        ELSE << "Quota exhausted for this account." >>],
                     error.retryDelayMs)
  ELSE Enhancement(NoValue, error.retryDelayMs)

injectResponseIdFromTrace(payload) ==
  IF payload.traceId = "" \/ payload.response = NoValue \/ payload.response.responseId # ""
    THEN payload
    ELSE [payload EXCEPT !.response.responseId = payload.traceId]

\* the headers attachUsageHeaders sets
UsageHeaders(effectiveBody) ==
  IF effectiveBody = NoValue \/ effectiveBody.response = NoValue
       \/ effectiveBody.response.cachedContentTokenCount = Null
    THEN {}
    ELSE { "x-gemini-cached-content-token-count" }

\* a faulty variant: the response is built without the upstream status
ResponseInitDefault(response, added, payload) ==
  HttpResponse(200, response.contentType, added, payload, FALSE)

\* new Response(body, { status, statusText, headers })
ResponseInit(response, added, payload) ==
  HttpResponse(response.status, response.contentType, added, payload, FALSE)

\* the part of transformGeminiResponse after response.text() returned
TransformText(response, isStreaming, model, text) ==
  LET parsed == IF ~isStreaming \/ ~isEventStreamResponse(response.contentType)
                  THEN parseGeminiApiBody(text) ELSE NoValue
      enhanced == IF ~response.ok /\ parsed # NoValue
                    THEN enhanceGeminiErrorResponse(parsed, response.status)
                    ELSE NoEnhancement
      retryHeaders == IF enhanced.retryAfterMs # 0 THEN { "Retry-After", "retry-after-ms" }
                      ELSE {}
      previewPatched ==
        IF parsed # NoValue
          THEN rewriteGeminiPreviewAccessError(
                 IF enhanced.body # NoValue THEN enhanced.body ELSE parsed,
                 response.status, model)
          ELSE NoValue
      effectiveBodyRaw == IF previewPatched # NoValue THEN previewPatched
                          ELSE IF enhanced.body # NoValue THEN enhanced.body
                          ELSE parsed
      effectiveBody == IF effectiveBodyRaw # NoValue
                         THEN injectResponseIdFromTrace(effectiveBodyRaw)
                         ELSE effectiveBodyRaw
      added == retryHeaders \cup UsageHeaders(effectiveBody)
  IN
  IF parsed = NoValue THEN ResponseInit(response, added, text)
  ELSE IF effectiveBody # NoValue /\ effectiveBody.response # NoValue
    THEN ResponseInit(response, added, JSONstringify(effectiveBody.response))
  ELSE IF previewPatched # NoValue
    THEN ResponseInit(response, added, JSONstringify(previewPatched))
  ELSE ResponseInit(response, added, text)

InitResponse ==
  /\ transformPc = "idle"
  /\ upstream = NoResponse
  /\ streaming = FALSE
  /\ requestedModel = ""
  /\ textRead = FALSE
  /\ returned = NoResponse

ResponseFrame ==
  UNCHANGED << retryVars, tokenVars, projectVars, exchangeVars, logVars, tokenLog,
               projectLogVars, loaderVars, requestVars, helperVars, authStore >>

\* transformGeminiResponse up to await response.text(): a response that is
\* neither JSON nor an event stream is returned as it is, a streamed one is
\* returned with its body stream rewritten
TransformCall(response, isStreaming, model) ==
  /\ ResponseFrame
  /\ transformPc = "idle"
  /\ upstream' = response
  /\ streaming' = isStreaming
  /\ requestedModel' = model
  /\ textRead' = FALSE
  /\ IF ~isJsonResponse(response.contentType) /\ ~isEventStreamResponse(response.contentType)
       THEN /\ returned' = response
            /\ transformPc' = "returned"
       ELSE IF /\ isStreaming
               /\ response.ok
               /\ isEventStreamResponse(response.contentType)
               /\ response.body # NoText
         THEN /\ returned' = ResponseInit(response, {},
                                          transformStreamingPayloadStream(response.body))
              /\ transformPc' = "returned"
         ELSE /\ returned' = NoResponse
              /\ transformPc' = "text"

\* response.text() returns, and the rest of the function runs
TransformTextReturns ==
  /\ ResponseFrame
  /\ transformPc = "text"
  /\ textRead' = TRUE
  /\ returned' = TransformText(upstream, streaming, requestedModel, upstream.body)
  /\ transformPc' = "returned"
  /\ UNCHANGED << upstream, streaming, requestedModel >>

\* response.text() rejects: the catch hands back the upstream response
TransformTextThrows ==
  /\ ResponseFrame
  /\ transformPc = "text"
  /\ returned' = upstream
  /\ transformPc' = "returned"
  /\ UNCHANGED << upstream, streaming, requestedModel, textRead >>

NextResponse ==
  \/ \E response \in UpstreamResponses, isStreaming \in BOOLEAN, model \in RequestedModels :
       TransformCall(response, isStreaming, model)
  \/ TransformTextReturns
  \/ TransformTextThrows



(***************************************************************************)
(* transformRequestBody (request/prepare.ts) with the identifier           *)
(* normalisation of request/identifiers.ts.  A JSON object is a record of  *)
(* the keys the code reads or writes; Missing stands for a key that is not *)
(* there.  userPromptId stands for the camel-case and request-id aliases   *)
(* of user_prompt_id, content for the members the payload normalisers of   *)
(* an unwrapped body rewrite.                                              *)
(***************************************************************************)
Missing == "<missing>"

\* randomUUID()
RandomId == "<uuid>"

PROCESS_SESSION_ID == "<process-session>"

MODEL_FALLBACKS(rawModel) ==
  CASE rawModel = "gemini-2.5-flash-image" -> "gemini-2.5-flash"
    [] rawModel = "gemini-3.1-pro-preview" -> "gemini-3-pro-preview"
    [] rawModel = "gemini-3.1-flash-preview" -> "gemini-3-flash-preview"
    [] rawModel = "gemini-3.1-pro-preview-customtools" -> "gemini-3-pro-preview"
    [] OTHER -> rawModel

\* the request member: absent, a value that is no object, or an object
RequestObject(kind, session_id, sessionId, user_prompt_id, project, nested, content) ==
  [kind |-> kind, session_id |-> session_id, sessionId |-> sessionId,
   user_prompt_id |-> user_prompt_id, project |-> project, nested |-> nested,
   content |-> content]

NoRequest == RequestObject("missing", Missing, Missing, Missing, Missing, FALSE, "")

ScalarRequest == RequestObject("scalar", Missing, Missing, Missing, Missing, FALSE, "")

EmptyRequest == RequestObject("object", Missing, Missing, Missing, Missing, FALSE, "")

BodyObject(project, model, user_prompt_id, userPromptId, session_id, request, content) ==
  [project |-> project, model |-> model, user_prompt_id |-> user_prompt_id,
   userPromptId |-> userPromptId, session_id |-> session_id, sessionId |-> Missing,
   request |-> request, content |-> content]

RequestObjects ==
  { RequestObject("object", s, a, u, Missing, FALSE, "contents") :
      s \in { Missing, "s1" }, a \in { Missing, "s2" }, u \in { Missing, "u2" } }

\* the bodies a caller sends: wrapped ones (project and request) and others
RequestBodyObjects ==
  { BodyObject("p0", m, u, a, s, r, "") :
      m \in { Missing, "gemini-2.5-flash" }, u \in { Missing, "u1" },
      a \in { Missing, "u3" }, s \in { Missing, "s0" },
      r \in RequestObjects \cup { ScalarRequest } }
  \cup
  { BodyObject(p, m, u, Missing, s, NoRequest, "raw") :
      p \in { Missing, "p0" }, m \in { Missing, "gemini-2.5-flash" },
      u \in { Missing, "u1" }, s \in { Missing, "s0" } }

RequestTexts == { Text("object", b) : b \in RequestBodyObjects } \cup { Text("garbage", NoValue) }

EffectiveModels == { MODEL_FALLBACKS(m) : m \in { "gemini-2.5-flash", "gemini-3.1-pro-preview" } }

ProjectIds == { "", "p1" }

\* the first of the values that is a non-blank string
RECURSIVE pickString(_)
pickString(values) ==
  IF values = << >> THEN Missing
  ELSE IF Head(values) \notin { Missing, "" } THEN Head(values)
  ELSE pickString(Tail(values))

OrElse(value, fallback) == IF value = Missing THEN fallback ELSE value

resolveUserPromptId(payload, request) ==
  OrElse(pickString(<< payload.user_prompt_id, payload.userPromptId,
                       request.user_prompt_id >>), RandomId)

resolveSessionId(payload, request) ==
  OrElse(pickString(<< request.session_id, request.sessionId,
                       payload.session_id, payload.sessionId >>), PROCESS_SESSION_ID)

stripPromptIdentifierAliases(payload) ==
  [payload EXCEPT !.user_prompt_id = Missing, !.userPromptId = Missing]

stripSessionIdentifierAliases(payload) == [payload EXCEPT !.sessionId = Missing]

normalizeWrappedIdentifiers(wrapped) ==
  LET request == IF wrapped.request.kind = "object" THEN wrapped.request ELSE EmptyRequest
      userPromptId == resolveUserPromptId(wrapped, request)
      sessionId == resolveSessionId(wrapped, request)
      normalized == stripSessionIdentifierAliases([request EXCEPT !.session_id = sessionId])
  IN [wrapped |-> stripPromptIdentifierAliases(
                    [wrapped EXCEPT !.request = normalized,
                                    !.user_prompt_id = userPromptId]),
      userPromptId |-> userPromptId]

\* the unwrapped body as the request member of the envelope: the payload
\* normalisers ran, model and the prompt identifiers are deleted, session_id
\* is set
normalizeRequestPayloadIdentifiers(payload) ==
  [payload |->
     RequestObject("object", resolveSessionId(payload, EmptyRequest), Missing, Missing,
                   payload.project, payload.request.kind # "missing",
                   IF payload.content = "raw" THEN "normalized" ELSE payload.content),
   userPromptId |-> resolveUserPromptId(payload, EmptyRequest)]

TransformResult(text, userPromptId) == [body |-> text, userPromptId |-> userPromptId]

NoTransformResult == TransformResult(NoText, "")

transformRequestBody(text, projectId, effectiveModel) ==
  IF text.form # "object" THEN TransformResult(NoText, RandomId)
  ELSE
    LET parsedBody == text.value
        isWrapped == parsedBody.project # Missing /\ parsedBody.request.kind # "missing"
        patched == normalizeWrappedIdentifiers([parsedBody EXCEPT !.model = effectiveModel])
        payload == normalizeRequestPayloadIdentifiers(parsedBody)
    IN IF isWrapped
         THEN TransformResult(JSONstringify(patched.wrapped), patched.userPromptId)
         ELSE TransformResult(
                JSONstringify(BodyObject(projectId, effectiveModel, payload.userPromptId,
                                         Missing, Missing, payload.payload, "")),
                payload.userPromptId)

InitRequest ==
  /\ bodyPc = 0
  /\ requestText = NoText
  /\ bodyArgs = [projectId |-> "", effectiveModel |-> ""]
  /\ transformed = NoTransformResult
  /\ retransformed = NoTransformResult

RequestFrame ==
  UNCHANGED << retryVars, tokenVars, projectVars, exchangeVars, logVars, tokenLog,
               projectLogVars, loaderVars, responseVars, helperVars, authStore >>

\* prepareGeminiRequest hands a string body to transformRequestBody
TransformBody(text, projectId, effectiveModel) ==
  /\ RequestFrame
  /\ bodyPc = 0
  /\ bodyPc' = 1
  /\ requestText' = text
  /\ bodyArgs' = [projectId |-> projectId, effectiveModel |-> effectiveModel]
  /\ transformed' = transformRequestBody(text, projectId, effectiveModel)
  /\ UNCHANGED retransformed

\* the body it returned is sent through it once more, for the same model
TransformBodyAgain ==
  /\ RequestFrame
  /\ bodyPc = 1
  /\ transformed.body # NoText
  /\ bodyPc' = 2
  /\ retransformed' = transformRequestBody(transformed.body, bodyArgs.projectId,
                                           bodyArgs.effectiveModel)
  /\ UNCHANGED << requestText, bodyArgs, transformed >>

NextRequest ==
  \/ \E text \in RequestTexts, projectId \in ProjectIds, effectiveModel \in EffectiveModels :
       TransformBody(text, projectId, effectiveModel)
  \/ TransformBodyAgain

(***************************************************************************)
(* The two readings of a 429 error body: extractQuotaInfo of the error     *)
(* enhancer (request-helpers/errors.ts) and classifyQuotaResponse of the   *)
(* retry engine (retry/quota.ts), applied to the same details.  A text is  *)
(* given by the set of the searched words it contains.                     *)
(***************************************************************************)
\* the plugin's state outside the helper components
PluginStateUnchanged ==
  UNCHANGED << retryVars, tokenVars, projectVars, exchangeVars, logVars, tokenLog,
               projectLogVars, loaderVars, responseVars, requestVars, authStore >>

DailyWords == { "perday", "daily", "per day" }

MinuteWords == { "perminute", "per minute" }

\* the details array of an error: the ErrorInfo (domain, reason), the
\* RetryInfo, and the QuotaFailure with the quotaId and the description of
\* its violation
ErrorDetails(domain, reason, retryInfo, failure, quotaId, description) ==
  [domain |-> domain, reason |-> reason, retryInfo |-> retryInfo, failure |-> failure,
   quotaId |-> quotaId, description |-> description]

NoDetails == ErrorDetails("", "", NoDelay, FALSE, {}, {})

QuotaIds == { {}, { "perday" }, { "perminute" } }

Descriptions == { {}, { "daily" }, { "per day" }, { "per minute" } }

DetailsInputs ==
  { ErrorDetails(domain, reason, retryInfo, FALSE, {}, {}) :
      domain \in { CC, "other.googleapis.com", "" },
      reason \in { "RATE_LIMIT_EXCEEDED", "QUOTA_EXHAUSTED", "MODEL_CAPACITY_EXHAUSTED", "" },
      retryInfo \in { NoDelay, Ms(1500) } }
  \cup
  { ErrorDetails(domain, reason, NoDelay, TRUE, quotaId, description) :
      domain \in { CC, "other.googleapis.com" },
      reason \in { "RATE_LIMIT_EXCEEDED", "MODEL_CAPACITY_EXHAUSTED", "" },
      quotaId \in QuotaIds, description \in Descriptions }

\* extractQuotaInfo: "retryable", "exhausted" or "" for null
extractQuotaInfo(details) ==
  IF details.reason = "RATE_LIMIT_EXCEEDED" THEN "retryable"
  ELSE IF details.reason = "QUOTA_EXHAUSTED" THEN "exhausted"
  ELSE IF ~details.failure THEN ""
  ELSE IF details.description \cap { "daily", "per day" } # {} THEN "exhausted"
  ELSE "retryable"

\* the words classifyQuotaResponse looks for in the quotaIds and
\* descriptions of the violations, joined and in lower case
ViolationClass(details) ==
  LET allTexts == details.quotaId \cup details.description
  IN  IF ~details.failure THEN "none"
      ELSE IF allTexts \cap DailyWords # {} THEN "perday"
      ELSE IF allTexts \cap MinuteWords # {} THEN "perminute"
      ELSE "other"

\* the 429 response the retry engine is given
AsRetryResponse(details) ==
  Resp(429, ErrorPayload(details.domain, details.reason, details.retryInfo,
                         ViolationClass(details)))

\* extractRetryDelay of the enhancer (0: none)
extractRetryDelay(details) ==
  LET delayMs == IF details.retryInfo.unit = "none" THEN Null
                 ELSE parseRetryDelayValue(details.retryInfo)
  IN  IF delayMs = Null THEN 0 ELSE delayMs

\* the parsed body the enhancer is given
AsApiBody(details) ==
  ApiBody(NoValue,
          ErrorValue(<< "upstream" >>, extractRetryDelay(details), extractQuotaInfo(details),
                     FALSE),
          "")

InitLabel ==
  /\ labelPc = "idle"
  /\ labelDetails = Null
  /\ labelEnhanced = Null
  /\ labelQuota = Null

LabelFrame == PluginStateUnchanged /\ UNCHANGED << thinkingVars, streamVars, schemaVars, sessionVars >>

\* enhanceGeminiErrorResponse(body, 429)
EnhanceCall(details) ==
  /\ LabelFrame
  /\ labelPc = "idle"
  /\ labelDetails' = details
  /\ labelEnhanced' = enhanceGeminiErrorResponse(AsApiBody(details), 429)
  /\ labelPc' = "enhanced"
  /\ UNCHANGED labelQuota

\* classifyQuotaResponse(response) for the same body
ClassifyCall ==
  /\ LabelFrame
  /\ labelPc = "enhanced"
  /\ labelQuota' = classifyQuotaResponse(AsRetryResponse(labelDetails))
  /\ labelPc' = "classified"
  /\ UNCHANGED << labelDetails, labelEnhanced >>

NextLabel ==
  \/ \E details \in DetailsInputs : EnhanceCall(details)
  \/ ClassifyCall


(***************************************************************************)
(* The thinking configuration (request-helpers/thinking.ts and             *)
(* normalizeThinking of request/prepare.ts).  A JSON value is given by its *)
(* typeof and its text.                                                    *)
(***************************************************************************)
JsValue(type, text) == [type |-> type, text |-> text]

JsUndefined == JsValue("undefined", "")

JsNull == JsValue("object", "null")

\* record.a ?? record.b
Coalesce(a, b) == IF a = JsUndefined \/ a = JsNull THEN b ELSE a

\* String.prototype.toLowerCase on the level names used here
toLowerCase(text) ==
  CASE text = "HIGH" -> "high"
    [] text = "Low"  -> "low"
    [] OTHER         -> text

\* a thinkingConfig: absent, or an object with the six recognised keys and
\* possibly a key that is not recognised
ThinkingConfig(present, thinkingBudget, thinking_budget, thinkingLevel, thinking_level,
               includeThoughts, include_thoughts, otherKey) ==
  [present |-> present,
   thinkingBudget |-> thinkingBudget, thinking_budget |-> thinking_budget,
   thinkingLevel |-> thinkingLevel, thinking_level |-> thinking_level,
   includeThoughts |-> includeThoughts, include_thoughts |-> include_thoughts,
   otherKey |-> otherKey]

NoThinkingConfig ==
  ThinkingConfig(FALSE, JsUndefined, JsUndefined, JsUndefined, JsUndefined, JsUndefined,
                 JsUndefined, FALSE)

\* a generationConfig: absent, or an object with a thinkingConfig member
\* and possibly other members (temperature)
GenerationConfig(present, thinkingConfig, temperature) ==
  [present |-> present, thinkingConfig |-> thinkingConfig, temperature |-> temperature]

NoGenerationConfig == GenerationConfig(FALSE, NoThinkingConfig, FALSE)

ThinkingConfigs ==
  { ThinkingConfig(TRUE, b1, b2, l1, l2, i1, i2, o) :
      b1 \in { JsUndefined, JsNull, JsValue("number", "1024") },
      b2 \in { JsUndefined, JsValue("number", "512") },
      l1 \in { JsUndefined, JsValue("string", "HIGH"), JsValue("string", "") },
      l2 \in { JsUndefined, JsValue("string", "Low") },
      i1 \in { JsUndefined, JsValue("boolean", "true"), JsValue("string", "yes") },
      i2 \in { JsUndefined, JsValue("boolean", "false") },
      o \in BOOLEAN }

GenerationConfigs ==
  { NoGenerationConfig, GenerationConfig(TRUE, NoThinkingConfig, TRUE) }
  \cup { GenerationConfig(TRUE, c, t) : c \in ThinkingConfigs, t \in BOOLEAN }

\* normalizeThinkingConfig: the canonical fields of the config, or
\* undefined (NoThinkingConfig) when it has none that is valid
normalizeThinkingConfig(config) ==
  LET budgetRaw  == Coalesce(config.thinkingBudget, config.thinking_budget)
      levelRaw   == Coalesce(config.thinkingLevel, config.thinking_level)
      includeRaw == Coalesce(config.includeThoughts, config.include_thoughts)
      thinkingBudget  == IF budgetRaw.type = "number" /\ budgetRaw.text # "NaN"
                           THEN budgetRaw ELSE JsUndefined
      thinkingLevel   == IF levelRaw.type = "string" /\ levelRaw.text # ""
                           THEN JsValue("string", toLowerCase(levelRaw.text))
                           ELSE JsUndefined
      includeThoughts == IF includeRaw.type = "boolean" THEN includeRaw ELSE JsUndefined
  IN  IF ~config.present THEN NoThinkingConfig
      ELSE IF thinkingBudget = JsUndefined /\ thinkingLevel = JsUndefined
              /\ includeThoughts = JsUndefined
        THEN NoThinkingConfig
      ELSE ThinkingConfig(TRUE, thinkingBudget, JsUndefined, thinkingLevel, JsUndefined,
                          includeThoughts, JsUndefined, FALSE)

\* a faulty variant: a config without a valid field is forwarded as it is
normalizeThinkingForwarding(rawGenerationConfig) ==
  LET normalizedThinking == normalizeThinkingConfig(rawGenerationConfig.thinkingConfig)
  IN  IF normalizedThinking # NoThinkingConfig
        THEN GenerationConfig(TRUE, normalizedThinking, rawGenerationConfig.temperature)
        ELSE rawGenerationConfig

\* normalizeThinking: the generationConfig of the payload afterwards
normalizeThinking(rawGenerationConfig) ==
  LET normalizedThinking == normalizeThinkingConfig(rawGenerationConfig.thinkingConfig)
  IN  IF normalizedThinking # NoThinkingConfig
        THEN GenerationConfig(TRUE, normalizedThinking, rawGenerationConfig.temperature)
        ELSE IF rawGenerationConfig.present /\ rawGenerationConfig.thinkingConfig.present
          THEN [rawGenerationConfig EXCEPT !.thinkingConfig = NoThinkingConfig]
          ELSE rawGenerationConfig

\* a request body: in wrapped shape (project and request members) or not
ThinkingRequest(wrapped, generationConfig) ==
  [wrapped |-> wrapped, generationConfig |-> generationConfig]

InitThinking ==
  /\ thinkPc = "idle"
  /\ thinkInput = Null
  /\ thinkEmitted = Null

ThinkingFrame == PluginStateUnchanged /\ UNCHANGED << labelVars, streamVars, schemaVars, sessionVars >>

\* transformRequestBody: a wrapped body keeps its request member, any other
\* body goes through normalizeThinking
TransformThinking(wrapped, generationConfig) ==
  /\ ThinkingFrame
  /\ thinkPc = "idle"
  /\ thinkInput' = ThinkingRequest(wrapped, generationConfig)
  /\ thinkEmitted' = IF wrapped THEN generationConfig
                     ELSE normalizeThinking(generationConfig)
  /\ thinkPc' = "done"

NextThinking ==
  \E wrapped \in BOOLEAN, generationConfig \in GenerationConfigs :
    TransformThinking(wrapped, generationConfig)


(***************************************************************************)
(* The rewriting of a streamed body (transformStreamingPayloadStream and   *)
(* transformStreamingLine of request/shared.ts).  A text is a sequence of  *)
(* pieces: "data:", a JSON object with a response member, "\r" and "\n";   *)
(* a read hands over some pieces, wherever the lines end.                  *)
(***************************************************************************)
MaxStreamLen == 5

MaxChunkLen == 3

CR == "\r"

LF == "\n"

StreamPieces == { "data:", "{response}", CR, LF }

Chunks == UNION { [1..n -> StreamPieces] : n \in 1..MaxChunkLen }

RECURSIVE Flatten(_)
\* the chunks one after the other
Flatten(chunks) == IF chunks = << >> THEN << >> ELSE Head(chunks) \o Flatten(Tail(chunks))

\* String.prototype.indexOf("\n"), 0 when there is none
IndexOfLF(text) ==
  IF \E i \in DOMAIN text : text[i] = LF
    THEN CHOOSE i \in DOMAIN text : text[i] = LF /\ \A j \in 1..(i - 1) : text[j] # LF
    ELSE 0

RECURSIVE TrimStart(_)
TrimStart(text) ==
  IF text # << >> /\ Head(text) = CR THEN TrimStart(Tail(text)) ELSE text

RECURSIVE TrimEnd(_)
TrimEnd(text) ==
  IF text # << >> /\ text[Len(text)] = CR
    THEN TrimEnd(SubSeq(text, 1, Len(text) - 1))
    ELSE text

\* String.prototype.trim: the white space here is "\r"
TrimText(text) == TrimEnd(TrimStart(text))

\* transformStreamingLine: a line "data:" followed by one JSON object with a
\* response member becomes "data: " and that member; any other line, also
\* one whose text after "data:" does not parse, is returned as it is
transformStreamingLine(line) ==
  IF line = << >> \/ Head(line) # "data:" THEN line
  ELSE LET json == TrimText(Tail(line))
       IN  IF json = << >> THEN line
           ELSE IF json = << "{response}" >> THEN << "data:", " ", "response" >>
           ELSE line

\* a faulty variant: every line is ended with "\n"
LineEndingLF(hasCr) == << LF >>

\* the terminator written after a line
LineEnding(hasCr) == IF hasCr THEN << CR, LF >> ELSE << LF >>

RECURSIVE DrainLines(_, _)
\* the while loop of a read: every whole line of the buffer is rewritten
\* and enqueued with its terminator, the rest stays in the buffer
DrainLines(text, out) ==
  LET newlineIndex == IndexOfLF(text)
      line         == SubSeq(text, 1, newlineIndex - 1)
      hasCr        == line # << >> /\ line[Len(line)] = CR
      rawLine      == IF hasCr THEN SubSeq(line, 1, Len(line) - 1) ELSE line
  IN  IF newlineIndex = 0 THEN [buffer |-> text, enqueued |-> out]
      ELSE DrainLines(SubSeq(text, newlineIndex + 1, Len(text)),
                      out \o transformStreamingLine(rawLine) \o LineEnding(hasCr))

InitStream ==
  /\ streamPc = "open"
  /\ chunksRead = << >>
  /\ buffer = << >>
  /\ enqueued = << >>

StreamFrame == PluginStateUnchanged /\ UNCHANGED << labelVars, thinkingVars, schemaVars, sessionVars >>

\* reader.read() resolves with a value
ReadValue(value) ==
  LET drained == DrainLines(buffer \o value, enqueued)
  IN
  /\ StreamFrame
  /\ streamPc = "open"
  /\ Len(Flatten(chunksRead)) + Len(value) <= MaxStreamLen
  /\ chunksRead' = Append(chunksRead, value)
  /\ buffer' = drained.buffer
  /\ enqueued' = drained.enqueued
  /\ UNCHANGED streamPc

\* reader.read() resolves with done: what is left in the buffer is
\* rewritten and enqueued without a terminator, and the stream is closed
ReadDone ==
  /\ StreamFrame
  /\ streamPc = "open"
  /\ enqueued' = IF buffer # << >> THEN enqueued \o transformStreamingLine(buffer)
                 ELSE enqueued
  /\ buffer' = << >>
  /\ streamPc' = "closed"
  /\ UNCHANGED chunksRead

NextStream ==
  \/ \E value \in Chunks : ReadValue(value)
  \/ ReadDone


(***************************************************************************)
(* The normalisation of anyOf nodes in the parameter schemas of function   *)
(* declarations (request/schema.ts).  A JSON value is a scalar, an array   *)
(* or an object; the members of an object are kept in their order, the     *)
(* items of an array are members with an empty key.                        *)
(***************************************************************************)
MaxSchemaDepth == 3

JsonScalar(text) == [kind |-> "scalar", text |-> text, members |-> << >>]

JsonUndefined == [kind |-> "undefined", text |-> "", members |-> << >>]

Member(key, value) == [key |-> key, value |-> value]

JsonObject(members) == [kind |-> "object", text |-> "", members |-> members]

JsonArray(items) ==
  [kind |-> "array", text |-> "",
   members |-> [i \in DOMAIN items |-> Member("", items[i])]]

\* key in schema
HasKey(schema, key) ==
  schema.kind = "object" /\ \E i \in DOMAIN schema.members : schema.members[i].key = key

\* schema[key]
Get(schema, key) ==
  IF HasKey(schema, key)
    THEN schema.members[CHOOSE i \in DOMAIN schema.members : schema.members[i].key = key].value
    ELSE JsonUndefined

\* Array.isArray
IsArray(value) == value.kind = "array"

\* isRecord: !!value && typeof value === "object", which an array is too
isRecord(value) == value.kind \in { "object", "array" }

ANY_OF_DEFINITION_KEYS == << "$defs", "defs", "definitions" >>

RECURSIVE normalizeSchemaAnyOfNodes(_)
RECURSIVE readAnyOfDefinitionSiblingsRaw(_, _)
RECURSIVE readAnyOfDefinitionSiblings(_, _)
\* a faulty variant: the definition blocks are copied as they are
readAnyOfDefinitionSiblingsRaw(schema, from) ==
  IF from > Len(ANY_OF_DEFINITION_KEYS) THEN << >>
  ELSE LET key == ANY_OF_DEFINITION_KEYS[from]
       IN  (IF HasKey(schema, key) THEN << Member(key, Get(schema, key)) >> ELSE << >>)
           \o readAnyOfDefinitionSiblingsRaw(schema, from + 1)

\* readAnyOfDefinitionSiblings: the definition blocks of the node, each
\* normalised, in the order of ANY_OF_DEFINITION_KEYS (from is the index the
\* loop has reached)
readAnyOfDefinitionSiblings(schema, from) ==
  IF from > Len(ANY_OF_DEFINITION_KEYS) THEN << >>
  ELSE LET key == ANY_OF_DEFINITION_KEYS[from]
       IN  (IF HasKey(schema, key)
              THEN << Member(key, normalizeSchemaAnyOfNodes(Get(schema, key))) >>
              ELSE << >>)
           \o readAnyOfDefinitionSiblings(schema, from + 1)

\* normalizeSchemaAnyOfNodes: an array is normalised item by item; a record
\* whose anyOf (or else any_of) is an array becomes that union, its branches
\* normalised, plus its definition blocks; any other record keeps its keys
\* with normalised values; any other value is returned as it is
normalizeSchemaAnyOfNodes(schema) ==
  IF IsArray(schema)
    THEN [schema EXCEPT !.members =
            [i \in DOMAIN schema.members |->
               Member("", normalizeSchemaAnyOfNodes(schema.members[i].value))]]
  ELSE IF ~isRecord(schema) THEN schema
  ELSE LET anyOf == IF IsArray(Get(schema, "anyOf")) THEN Get(schema, "anyOf")
                    ELSE IF IsArray(Get(schema, "any_of")) THEN Get(schema, "any_of")
                    ELSE JsonUndefined
           unionKey == IF IsArray(Get(schema, "any_of")) /\ ~IsArray(Get(schema, "anyOf"))
                         THEN "any_of" ELSE "anyOf"
       IN  IF anyOf # JsonUndefined
             THEN JsonObject(<< Member(unionKey, normalizeSchemaAnyOfNodes(anyOf)) >>
                             \o readAnyOfDefinitionSiblings(schema, 1))
             ELSE JsonObject([i \in DOMAIN schema.members |->
                    Member(schema.members[i].key,
                           normalizeSchemaAnyOfNodes(schema.members[i].value))])

StringSchema == JsonScalar("string")

\* the schemas that hold a given schema one level down: in an array, under
\* a plain key, as a branch of a union with other siblings, as a definition
\* block beside a union, under an anyOf key as it is, and in a node that
\* has both spellings of the union
Wrappings(schema) ==
  { JsonArray(<< schema >>),
    JsonObject(<< Member("properties", schema) >>),
    JsonObject(<< Member("description", StringSchema),
                  Member("anyOf", JsonArray(<< schema >>)) >>),
    JsonObject(<< Member("any_of", JsonArray(<< schema, StringSchema >>)),
                  Member("type", StringSchema) >>),
    JsonObject(<< Member("anyOf", schema), Member("description", StringSchema) >>),
    JsonObject(<< Member("anyOf", JsonArray(<< schema >>)),
                  Member("any_of", JsonArray(<< StringSchema >>)) >>),
    JsonObject(<< Member("anyOf", StringSchema),
                  Member("any_of", JsonArray(<< schema >>)),
                  Member("type", StringSchema) >>) }
  \cup { JsonObject(<< Member("anyOf", JsonArray(<< StringSchema >>)),
                       Member(ANY_OF_DEFINITION_KEYS[k], schema),
                       Member("description", StringSchema) >>)
         : k \in DOMAIN ANY_OF_DEFINITION_KEYS }

RECURSIVE SchemasOfDepth(_)
SchemasOfDepth(depth) ==
  IF depth = 0 THEN { StringSchema }
  ELSE LET inner == SchemasOfDepth(depth - 1)
       IN  inner \cup UNION { Wrappings(schema) : schema \in inner }

ParameterSchemas == SchemasOfDepth(MaxSchemaDepth)

InitSchema ==
  /\ schemaPc = "idle"
  /\ schemaInput = Null
  /\ schemaOutput = Null

SchemaFrame == PluginStateUnchanged /\ UNCHANGED << labelVars, thinkingVars, streamVars, sessionVars >>

\* normalizeVertexFunctionDeclarationSchemas for one schema of a declaration:
\* declaration[schemaKey] = normalizeSchemaAnyOfNodes(schema)
NormalizeDeclarationSchema(schema) ==
  /\ SchemaFrame
  /\ schemaPc = "idle"
  /\ schemaInput' = schema
  /\ schemaOutput' = normalizeSchemaAnyOfNodes(schema)
  /\ schemaPc' = "done"

NextSchema == \E schema \in ParameterSchemas : NormalizeDeclarationSchema(schema)


(***************************************************************************)
(* One authorization session: finalizeExchange and the code it checks      *)
(* (plugin/oauth-authorize.ts).  A code is a sequence of pieces; "%20" and *)
(* "%2F" are the escapes of a blank and of a slash.                        *)
(***************************************************************************)
NumCallbacks == 3

SessionTickMs == 360000

MaxSessionClock == 720000

AUTHORIZATION_SESSION_TTL_MS == 10 * 60 * 1000

Callbacks == 1..NumCallbacks

NoCode == << "undefined" >>

WhiteSpace == { " ", "\n" }

RECURSIVE TrimStartCode(_)
TrimStartCode(code) ==
  IF code # << >> /\ Head(code) \in WhiteSpace THEN TrimStartCode(Tail(code)) ELSE code

RECURSIVE TrimEndCode(_)
TrimEndCode(code) ==
  IF code # << >> /\ code[Len(code)] \in WhiteSpace
    THEN TrimEndCode(SubSeq(code, 1, Len(code) - 1))
    ELSE code

\* String.prototype.trim
TrimCode(code) == TrimEndCode(TrimStartCode(code))

\* trimWrappingQuotes
trimWrappingQuotes(value) ==
  IF Len(value) < 2 THEN value
  ELSE IF Head(value) = "\"" /\ value[Len(value)] = "\""
    THEN TrimCode(SubSeq(value, 2, Len(value) - 1))
  ELSE value

\* decodeURIComponent, piece by piece
decodeURIComponent(code) ==
  [i \in DOMAIN code |->
     IF code[i] = "%20" THEN " " ELSE IF code[i] = "%2F" THEN "/" ELSE code[i]]

\* normalizeAuthorizationCode: the code without wrapping quotes and outer
\* blanks, decoded if it has escapes; NoCode for a missing or empty code,
\* one with a line break, or one with white space after decoding.  (The
\* second decoding changes nothing here, and every code is shorter than
\* MAX_AUTHORIZATION_CODE_LENGTH.)
normalizeAuthorizationCode(rawCode) ==
  IF rawCode = NoCode \/ rawCode = << >> THEN NoCode
  ELSE LET candidate == TrimCode(trimWrappingQuotes(rawCode))
           decoded   == TrimCode(decodeURIComponent(candidate))
       IN  IF candidate = << >> THEN NoCode
           ELSE IF \E i \in DOMAIN candidate : candidate[i] = "\n" THEN NoCode
           ELSE IF decoded = << >> \/ \E i \in DOMAIN decoded : decoded[i] \in WhiteSpace
             THEN NoCode
           ELSE decoded

ParsedInput(code, state, error, source) ==
  [code |-> code, state |-> state, error |-> error, source |-> source]

\* the state authorizeGemini() made for this session
AuthorizationState == "s1"

\* parsed callback inputs; "" stands for a member that is undefined
CallbackInputs ==
  { ParsedInput(<< "a" >>, AuthorizationState, "", "url"),
    ParsedInput(<< "\"", "b", " ", "\"" >>, "", "", "raw"),
    ParsedInput(<< "a", "%2F", "b" >>, AuthorizationState, "", "query"),
    ParsedInput(NoCode, AuthorizationState, "access_denied", "url"),
    ParsedInput(<< "a" >>, "", "", "url"),
    ParsedInput(<< "a" >>, "s2", "", "url"),
    ParsedInput(<< "a", "%20", "b" >>, AuthorizationState, "", "url"),
    ParsedInput(NoCode, "", "", "empty") }

ExchangeResult(type, error) == [type |-> type, error |-> error]

Unsettled == ExchangeResult("pending", "")

NoReturn == ExchangeResult("none", "")

\* what exchangeGeminiWithVerifier and maybeHydrateProjectId can give
ExchangeResults ==
  { ExchangeResult("success", ""), ExchangeResult("failed", "token exchange failed") }

CodeAlreadySubmitted == ExchangeResult("failed", "Authorization code was already submitted")

\* the failure finalizeExchange returns before it looks at the exchange, or
\* NoReturn when the input passes: callback error, state missing, state
\* mismatch, session older than the TTL, code not well formed
ValidationFailure(input, age) ==
  IF input.error # "" THEN ExchangeResult("failed", "OAuth callback returned an error")
  ELSE IF input.source # "raw" /\ input.state = ""
    THEN ExchangeResult("failed", "Missing state in callback input")
  ELSE IF input.state # "" /\ input.state # AuthorizationState
    THEN ExchangeResult("failed", "State mismatch in callback input")
  ELSE IF age > AUTHORIZATION_SESSION_TTL_MS
    THEN ExchangeResult("failed", "OAuth authorization session expired")
  ELSE IF normalizeAuthorizationCode(input.code) = NoCode
    THEN ExchangeResult("failed", "Invalid authorization code in callback input")
  ELSE NoReturn

\* a faulty variant: the consumed flag is not looked at
MayStartExchangeAgain(promise, consumed) == promise = "null"

\* the exchange is started when there is no promise and the code was not
\* submitted before
MayStartExchange(promise, consumed) == promise = "null" /\ ~consumed

\* where the exchange of the session is
ExchangePhase ==
  IF ~exchangeConsumed THEN "unstarted"
  ELSE IF exchangeSettlement = Unsettled THEN "in flight"
  ELSE IF exchangePromise = "set" THEN "settled"
  ELSE "finished"

Arrival(phase, age) == [phase |-> phase, age |-> age]

InitSession ==
  /\ sessionClock = 0
  /\ exchangePromise = "null"
  /\ exchangeConsumed = FALSE
  /\ exchangeSettlement = Unsettled
  /\ exchangesStarted = 0
  /\ cbPc = [c \in Callbacks |-> "idle"]
  /\ cbInput = [c \in Callbacks |-> Null]
  /\ cbArrival = [c \in Callbacks |-> Null]
  /\ cbResult = [c \in Callbacks |-> Null]

SessionFrame ==
  PluginStateUnchanged /\ UNCHANGED << labelVars, thinkingVars, streamVars, schemaVars >>

\* finalizeExchange(parsed) up to its first await or its return
FinalizeExchange(c, input) ==
  LET failure == ValidationFailure(input, sessionClock)
  IN
  /\ SessionFrame
  /\ cbPc[c] = "idle"
  /\ \A d \in Callbacks : d < c => cbPc[d] # "idle"
  /\ cbInput' = [cbInput EXCEPT ![c] = input]
  /\ cbArrival' = [cbArrival EXCEPT ![c] = Arrival(ExchangePhase, sessionClock)]
  /\ UNCHANGED << sessionClock, exchangeSettlement >>
  /\ IF failure # NoReturn
       THEN /\ cbResult' = [cbResult EXCEPT ![c] = failure]
            /\ cbPc' = [cbPc EXCEPT ![c] = "done"]
            /\ UNCHANGED << exchangePromise, exchangeConsumed, exchangesStarted >>
     ELSE IF exchangePromise # "null"
       THEN /\ cbPc' = [cbPc EXCEPT ![c] = "joined"]
            /\ UNCHANGED << cbResult, exchangePromise, exchangeConsumed, exchangesStarted >>
     ELSE IF ~MayStartExchange(exchangePromise, exchangeConsumed)
       THEN /\ cbResult' = [cbResult EXCEPT ![c] = CodeAlreadySubmitted]
            /\ cbPc' = [cbPc EXCEPT ![c] = "done"]
            /\ UNCHANGED << exchangePromise, exchangeConsumed, exchangesStarted >>
     ELSE /\ exchangeConsumed' = TRUE
          /\ exchangePromise' = "set"
          /\ exchangesStarted' = exchangesStarted + 1
          /\ cbPc' = [cbPc EXCEPT ![c] = "awaiting"]
          /\ UNCHANGED cbResult

\* the exchange and the project hydration end: the promise is fulfilled
ExchangeSettled(outcome) ==
  /\ SessionFrame
  /\ exchangePromise = "set"
  /\ exchangeSettlement = Unsettled
  /\ exchangeSettlement' = outcome
  /\ UNCHANGED << sessionClock, exchangePromise, exchangeConsumed, exchangesStarted,
                  cbPc, cbInput, cbArrival, cbResult >>

\* the call that started the exchange goes on after its await: the finally
\* block sets exchangePromise to null and the result is returned
CallbackStarterReturns(c) ==
  /\ SessionFrame
  /\ cbPc[c] = "awaiting"
  /\ exchangeSettlement # Unsettled
  /\ exchangePromise' = "null"
  /\ cbResult' = [cbResult EXCEPT ![c] = exchangeSettlement]
  /\ cbPc' = [cbPc EXCEPT ![c] = "done"]
  /\ UNCHANGED << sessionClock, exchangeConsumed, exchangeSettlement, exchangesStarted,
                  cbInput, cbArrival >>

\* a call that returned the promise of the exchange is resolved with its result
CallbackJoinerReturns(c) ==
  /\ SessionFrame
  /\ cbPc[c] = "joined"
  /\ exchangeSettlement # Unsettled
  /\ cbResult' = [cbResult EXCEPT ![c] = exchangeSettlement]
  /\ cbPc' = [cbPc EXCEPT ![c] = "done"]
  /\ UNCHANGED << sessionClock, exchangePromise, exchangeConsumed, exchangeSettlement,
                  exchangesStarted, cbInput, cbArrival >>

\* time passes
SessionTick ==
  /\ SessionFrame
  /\ sessionClock + SessionTickMs <= MaxSessionClock
  /\ sessionClock' = sessionClock + SessionTickMs
  /\ UNCHANGED << exchangePromise, exchangeConsumed, exchangeSettlement, exchangesStarted,
                  cbPc, cbInput, cbArrival, cbResult >>

NextSession ==
  \/ \E c \in Callbacks, input \in CallbackInputs : FinalizeExchange(c, input)
  \/ \E outcome \in ExchangeResults : ExchangeSettled(outcome)
  \/ \E c \in Callbacks : CallbackStarterReturns(c)
  \/ \E c \in Callbacks : CallbackJoinerReturns(c)
  \/ SessionTick


InitHelpers == InitLabel /\ InitThinking /\ InitStream /\ InitSchema /\ InitSession

InitPlugin == InitLoader /\ InitResponse /\ InitRequest /\ InitHelpers


Init == InitRetry /\ InitToken /\ InitProject /\ InitExchange /\ InitPlugin

SpecRetry == Init /\ [][NextRetry]_vars

SpecSingleCall == Init /\ [][NextSingleCall]_vars

SpecToken == Init /\ [][NextToken]_vars

SpecProject == Init /\ [][NextProject]_vars

SpecExchange == Init /\ [][NextExchange]_vars

SpecRevocation == Init /\ [][NextRevocation]_vars

SpecLoader == Init /\ [][NextLoader]_vars

SpecResponse == Init /\ [][NextResponse]_vars

SpecRequest == Init /\ [][NextRequest]_vars

SpecSingleRefresh == Init /\ [][NextSingleRefresh]_vars

SpecSingleResolution == Init /\ [][NextSingleResolution]_vars

(***************************************************************************)
(* Claims about the retry engine (checked under SpecRetry).                *)
(***************************************************************************)

\* C2: whatever retryable statuses and transient transport errors the backend
\* produces, one fetchWithRetry call invokes fetch at most 3 times.
C2_AtMostThreeAttempts == \A c \in Calls : fetches[c] <= 3

\* a call that used all three attempts and was handed the third outcome
C2_Witness ==
  \E c \in Calls : fetches[c] = 3 /\ pc[c] = "done" /\ canRetryRequest(body[c])

\* C3 as stated: a call (with a replayable body, so a throttle key) that finds a cooldown of its throttle key active when it
\* starts issues no fetch before the rest of that cooldown has passed.
C3_Original == \A c \in Calls : canRetryRequest(body[c]) => ~earlyFetch[c]

\* C3 amended: this holds for a call with a replayable body whose signal is
\* not already aborted when it starts.
C3_CooldownWaitedOut ==
  \A c \in Calls :
    (canRetryRequest(body[c]) /\ ~startAborted[c]) => ~earlyFetch[c]

\* a call that found a cooldown, waited and then issued its first fetch
C3_Witness ==
  \E c \in Calls :
    /\ cooldownAtStart[c] /\ ~startAborted[c] /\ canRetryRequest(body[c])
    /\ fetches[c] >= 1 /\ ~earlyFetch[c]

\* C4 as stated: when a retryable 429 leads to a retry, the cooldown entry of
\* the call's key becomes the current time plus the resolved delay.
C4_Original ==
  [][ \A c \in Calls :
        (pc[c] = "resolve" /\ pc'[c] # "resolve" /\ RetryResponses[resp[c]].status = 429)
          => retryCooldownByKey'[KeyOf(c)] = (IF pc'[c] = "backoff" THEN timer'[c] ELSE 0)
    ]_vars

\* C4 amended: when a retryable 429 leads to a wait of a positive resolved
\* delay, the cooldown entry of the call's key becomes the later of its
\* previous value and the current time plus that delay, before the wait.
C4_CooldownRaised ==
  [][ \A c \in Calls :
        (pc[c] = "resolve" /\ pc'[c] = "backoff" /\ RetryResponses[resp[c]].status = 429)
          => /\ retryCooldownByKey'[KeyOf(c)] >= timer'[c]
             /\ retryCooldownByKey'[KeyOf(c)] = Max(retryCooldownByKey[KeyOf(c)], timer'[c])
    ]_vars

\* a call waiting after a retryable 429, its key's cooldown set to that delay
C4_Witness ==
  \E c \in Calls :
    /\ pc[c] = "backoff" /\ resp[c] # 0 /\ RetryResponses[resp[c]].status = 429
    /\ timer[c] > 0 /\ retryCooldownByKey[KeyOf(c)] = timer[c]

\* C5 as stated: a call to the same endpoint, project and model started right
\* after a terminal MODEL_CAPACITY_EXHAUSTED 429 without retry hint issues no
\* fetch before 8 seconds have passed.
C5_Original == \A c \in Calls : canRetryRequest(body[c]) => ~mcEarly[c]

\* C5 amended: this holds for a second call with a replayable body whose
\* signal is not already aborted when it starts.
C5_CapacityCooldown ==
  \A c \in Calls :
    (canRetryRequest(body[c]) /\ ~startAborted[c]) => ~mcEarly[c]

\* a second call started right after the terminal 429 that fetched after 8 s
C5_Witness ==
  \E c \in Calls :
    /\ mcStart[c] /\ ~startAborted[c] /\ canRetryRequest(body[c])
    /\ fetches[c] >= 1 /\ ~mcEarly[c]

\* C6: once the signal of a call is aborted, the call issues no further fetch.
C6_NoRetryAfterAbort ==
  [][ \A c \in Calls :
        (fetches[c] >= 1 /\ fetches'[c] > fetches[c]) => ~aborted[c] ]_vars

\* C7: no cooldown wait is run to its end for a call whose signal is aborted.
C7_NoCooldownWaitAfterAbort ==
  [][ \A c \in Calls :
        (pc[c] = "cooldown" /\ pc'[c] = "ready") => ~aborted[c] ]_vars

(***************************************************************************)
(* Claims about the token refresh (checked under SpecToken).               *)
(***************************************************************************)
TokenOf(r) == parseRefreshParts(rauth[r].refresh).refreshToken

ChainEndOf(r) == IF chainOf[r] = 0 THEN "" ELSE chainEnd[chainOf[r]]

\* C1: refreshAccessToken calls that share a refresh token and overlap are
\* served by one exchange with the token endpoint: at no time are two
\* exchanges for the same refresh token unsettled, a call that finds one in
\* flight awaits it, and every call gets the settlement of the exchange it
\* awaited, hence the same access token.
C1_SingleFlight ==
  /\ \A r1 \in RefreshCalls, r2 \in RefreshCalls :
       (r1 # r2 /\ rpc[r1] \in ChainStages /\ rpc[r2] \in ChainStages)
         => TokenOf(r1) # TokenOf(r2)
  /\ \A r \in RefreshCalls :
       rpc[r] = "joined" =>
         /\ chainOf[r] # r
         /\ TokenOf(chainOf[r]) = TokenOf(r)
  /\ \A r \in RefreshCalls :
       (rpc[r] = "done" /\ chainOf[r] # 0) => rresult[r] = chainResult[chainOf[r]]

\* two calls with different refresh strings that share the refresh token
\* were served by the exchange of the first and hold the same access token
C1_Witness ==
  \E r1 \in RefreshCalls, r2 \in RefreshCalls :
    /\ r1 # r2
    /\ rpc[r1] = "done" /\ rpc[r2] = "done"
    /\ chainOf[r1] = r1 /\ chainOf[r2] = r1
    /\ rauth[r1] # rauth[r2]
    /\ rresult[r1].kind = "auth"
    /\ rresult[r2].auth.access = rresult[r1].auth.access

\* C8: an exchange calls client.auth.set only when the token endpoint
\* rotated the refresh token or reported invalid_grant; an exchange that
\* ends with the refresh token unchanged makes no such call.
C8_StoreWriteOnlyOnChange ==
  \A r \in RefreshCalls :
    /\ authSetCalls[r] > 0 => chainEnd[r] \in { "rotated", "revoked" }
    /\ chainEnd[r] = "unchanged" => authSetCalls[r] = 0

\* one call refreshed with the refresh token unchanged and wrote nothing,
\* another one got a rotated refresh token and wrote it
C8_Witness ==
  \E r1 \in RefreshCalls, r2 \in RefreshCalls :
    /\ rpc[r1] = "done" /\ chainEnd[r1] = "unchanged"
    /\ rresult[r1].kind = "auth" /\ authSetCalls[r1] = 0
    /\ rpc[r2] = "done" /\ chainEnd[r2] = "rotated"
    /\ authSetCalls[r2] = 1 /\ authStore = rresult[r2].auth

\* C9: refreshAccessToken never rejects: a finished call holds either a
\* credential with a fresh access token, exactly when the token endpoint
\* answered OK with a readable payload, or undefined.
C9_NeverRejects ==
  \A r \in RefreshCalls :
    /\ chainResult[r].kind # "rejected"
    /\ rpc[r] = "done" =>
         /\ rresult[r].kind \in { "undefined", "auth" }
         /\ rresult[r].kind = "auth" <=> ChainEndOf(r) \in { "unchanged", "rotated" }
         /\ rresult[r].kind = "auth" => rresult[r].auth.access = AccessIssuedTo(chainOf[r])

\* calls ended with undefined after a transport error, after an unreadable
\* payload and after a revocation
C9_Witness ==
  \A path \in { "threw", "badJson", "revoked" } :
    \E r \in RefreshCalls :
      rpc[r] = "done" /\ ChainEndOf(r) = path /\ rresult[r] = Undefined

(***************************************************************************)
(* Claims about the project context resolver (checked under SpecProject).  *)
(***************************************************************************)
\* a resolution that was registered under a cache key and whose callbacks
\* have not run yet
InFlight(p) == ppc[p] \in ResolutionStages /\ pkey[p] # NoCacheKey

\* C10 as stated: ensureProjectContext calls with the same cache key that
\* overlap share one resolution: at no time are two resolutions of one
\* cache key in flight, and a call that joined a resolution gets its result.
C10_Original ==
  /\ \A p1 \in ProjectCalls, p2 \in ProjectCalls :
       (p1 # p2 /\ InFlight(p1) /\ InFlight(p2)) => pkey[p1] # pkey[p2]
  /\ \A p \in ProjectCalls :
       (ppc[p] = "done" /\ pjoined[p] # 0) => presult[p] = presult[pjoined[p]]

\* C10 amended: this holds as long as invalidateProjectContextCache has not
\* deleted the pending entry of the cache key while a resolution of that key
\* was in flight; after that, and until no resolution of the key is left in
\* flight, later calls start resolutions of their own.
C10_SingleFlightUnlessInvalidated ==
  /\ \A p1 \in ProjectCalls, p2 \in ProjectCalls :
       (p1 # p2 /\ InFlight(p1) /\ InFlight(p2) /\ pkey[p1] = pkey[p2])
         => pkey[p1] \in invalidatedInFlight
  /\ \A p \in ProjectCalls :
       ppc[p] = "joined" =>
         /\ pjoined[p] # p
         /\ pkey[pjoined[p]] = pkey[p]
         /\ loads[p] = 0
  /\ \A p \in ProjectCalls :
       (ppc[p] = "done" /\ pjoined[p] # 0) => presult[p] = presult[pjoined[p]]

\* a call joined the resolution of another call while that one was loading
\* the managed project; one load was made and both hold the same context
C10_Witness ==
  \E p1 \in ProjectCalls, p2 \in ProjectCalls :
    /\ p1 # p2
    /\ ppc[p1] = "done" /\ ppc[p2] = "done"
    /\ pjoined[p2] = p1 /\ pkey[p1] = pkey[p2]
    /\ loads[p1] = 1 /\ loads[p2] = 0
    /\ presult[p1].kind = "value" /\ presult[p2] = presult[p1]
    /\ invalidatedInFlight = {}

\* the configured project ids the calls are made with
ConfiguredIds == { in.cfg : in \in ProjectInputs } \ { "" }

\* C11: once a call with some credential and configured project id has got a
\* project context and the cache has not been invalidated since, a later
\* call with the same credential and configured project id is answered from
\* the cache: it returns at once and starts no resolution.
C11_AnsweredFromCache ==
  [][ \A p \in ProjectCalls :
        (ppc[p] = "idle" /\ ppc'[p] # "idle" /\ pauth'[p].access # 0
           /\ pkey'[p] \in resolvedFor)
          => (ppc'[p] = "done" /\ loads'[p] = 0) ]_vars

\* C12: a call never gets a project context whose effective project id is a
\* configured override other than the one the call itself was made with.
C12_OverrideNamespaced ==
  \A p \in ProjectCalls :
    (ppc[p] = "done" /\ presult[p].kind = "value"
       /\ presult[p].effectiveProjectId \in ConfiguredIds)
      => pcfg[p] = presult[p].effectiveProjectId

(***************************************************************************)
(* Claims about the authorization code exchange (checked under             *)
(* SpecExchange).                                                          *)
(***************************************************************************)
\* a finished call whose arguments named a pair
Exchanged(c) == xpc[c] = "done" /\ xkey[c] # NoExchangeKey

\* the call's request reached the token endpoint: it sent one itself or it
\* returned the promise of the exchange of its pair that was in flight
SentToEndpoint(c) == xfetches[c] = 1 \/ xjoined[c] # 0

\* C13 as stated: a call is rejected as already submitted exactly when an
\* exchange of its pair had succeeded before it started, and then it sends
\* nothing to the token endpoint; a replay after a failed exchange only is
\* sent to the token endpoint.
C13_Original ==
  \A c \in ExchangeCalls :
    Exchanged(c) =>
      /\ (xprior[c].succeeded # Null) <=> (xoutcome[c] = AlreadySubmitted)
      /\ (xoutcome[c] = AlreadySubmitted) => xfetches[c] = 0
      /\ (xprior[c].succeeded = Null /\ xprior[c].failed) => SentToEndpoint(c)

\* C13 amended: a call is rejected as already submitted exactly when an
\* exchange of its pair succeeded at most AUTHORIZATION_CODE_REPLAY_TTL_MS
\* before it started, and then it sends nothing to the token endpoint; a
\* replay after a failed exchange, or later than that after a success, is
\* sent to the token endpoint.
C13_ConsumedWhileFresh ==
  \A c \in ExchangeCalls :
    Exchanged(c) =>
      /\ (xprior[c].succeeded # Null
            /\ xprior[c].succeeded <= AUTHORIZATION_CODE_REPLAY_TTL_MS)
           <=> (xoutcome[c] = AlreadySubmitted)
      /\ (xoutcome[c] = AlreadySubmitted) => xfetches[c] = 0
      /\ (xprior[c].succeeded = Null /\ xprior[c].failed) => SentToEndpoint(c)
      /\ (xprior[c].succeeded # Null
            /\ xprior[c].succeeded > AUTHORIZATION_CODE_REPLAY_TTL_MS) => SentToEndpoint(c)

\* a replay after a failure was sent to the token endpoint and succeeded, and
\* the replay after that success was rejected without a request
C13_Witness ==
  \E c \in ExchangeCalls, d \in ExchangeCalls :
    /\ Exchanged(c) /\ Exchanged(d) /\ xkey[c] = xkey[d]
    /\ xprior[c].succeeded = Null /\ xprior[c].failed
    /\ xfetches[c] = 1 /\ xoutcome[c] = ExchangeSuccess
    /\ xprior[d].succeeded # Null /\ xoutcome[d] = AlreadySubmitted /\ xfetches[d] = 0

(***************************************************************************)
(* Claims about a single fetchWithRetry call (checked under                *)
(* SpecSingleCall).  respLog[i] is the outcome of attempt i and, for a     *)
(* replayable request, waitLog[i] the delay waited after it.               *)
(***************************************************************************)
Response(r) == [kind |-> "response", resp |-> r, err |-> ""]

Thrown(e) == [kind |-> "throw", resp |-> 0, err |-> e]

\* a 429 whose ErrorInfo has this reason and no domain or a Code Assist one
Has429Reason(r, reason) ==
  /\ r # 0
  /\ RetryResponses[r].status = 429
  /\ RetryResponses[r].body.present
  /\ RetryResponses[r].body.reason = reason
  /\ RetryResponses[r].body.domain \in CLOUDCODE_DOMAINS \cup { "" }

\* the delay the body of the response states, in its RetryInfo detail or
\* else in its message text (Null: none)
StatedDelay(r) ==
  LET b == RetryResponses[r].body
      v == IF b.retryInfo.unit # "none" THEN b.retryInfo ELSE b.msgDelay
  IN  IF v.unit = "ms" THEN v.num ELSE IF v.unit = "s" THEN 1000 * v.num ELSE Null

NoRetryHeader(r) ==
  RetryResponses[r].retryAfterMs = Null /\ RetryResponses[r].retryAfter = NoHeader

\* attempt i was the last one and its response went to the caller
ReturnedAt(i) ==
  /\ Len(respLog) = i
  /\ fetches[1] = i
  /\ pc[1] \in { "classify", "done" }
  /\ pc[1] = "done" => result[1] = Response(respLog[i].resp)

\* the call went on after attempt i unless it was the last attempt allowed
\* or the signal was aborted
RetriedAfter(i) ==
  (pc[1] = "done" /\ Len(respLog) = i) => (i = DEFAULT_MAX_ATTEMPTS \/ aborted[1])

C16_RetriesAfterHint ==
  (canRetryRequest(body[1]) /\ ~aborted[1]
     /\ respLog # << >> /\ respLog[1] = Outcome(6, ""))
    => /\ pc[1] = "done" => Len(respLog) >= 2
       /\ waitLog # << >> => waitLog[1] = 1500
       /\ (Len(respLog) >= 2 /\ respLog[2] = Outcome(1, ""))
            => (pc[1] = "done" /\ fetches[1] = 2 /\ Len(respLog) = 2
                  /\ result[1] = Response(1))

C16_Witness ==
  /\ canRetryRequest(body[1]) /\ ~aborted[1]
  /\ pc[1] = "done" /\ fetches[1] = 2
  /\ respLog = << Outcome(6, ""), Outcome(1, "") >>
  /\ waitLog = << 1500 >>
  /\ result[1] = Response(1)

\* C17: the call ends with the outcome of its last fetch: that response is
\* returned, that error is thrown.
C17_LastOutcomeHandedOn ==
  pc[1] = "done" =>
    /\ respLog # << >>
    /\ fetches[1] = Len(respLog)
    /\ result[1] = IF respLog[Len(respLog)].err = ""
                     THEN Response(respLog[Len(respLog)].resp)
                     ELSE Thrown(respLog[Len(respLog)].err)

\* the attempts were used up and the error of the last one was thrown
C17_Witness ==
  /\ pc[1] = "done" /\ fetches[1] = DEFAULT_MAX_ATTEMPTS
  /\ respLog = << Outcome(3, ""), Outcome(0, "fetch failed"), Outcome(0, "ECONNRESET") >>
  /\ result[1] = Thrown("ECONNRESET")

\* C18: a request whose body cannot be replayed is sent once; what that one
\* fetch yields goes to the caller, and nothing is waited for.
C18_SentOnce ==
  (pc[1] # "start" /\ body[1].kind = "stream")
    => /\ fetches[1] = 1
       /\ waitLog = << >>
       /\ Len(respLog) <= 1
       /\ Len(respLog) = 1 => pc[1] = "done"

\* a stream body answered with 503: one fetch, the 503 returned
C18_Witness ==
  /\ body[1].kind = "stream"
  /\ pc[1] = "done" /\ fetches[1] = 1
  /\ respLog = << Outcome(3, "") >>
  /\ result[1] = Response(3)

\* the sources of a retry delay in the order of their precedence: the
\* retry-after-ms header, the Retry-After header, the delay of the quota
\* classification (made for a 429 only), the delay stated in the body
DelaySources(r) ==
  << parseRetryAfterMs(RetryResponses[r].retryAfterMs),
     parseRetryAfter(RetryResponses[r].retryAfter),
     IF RetryResponses[r].status = 429
       THEN classifyQuotaResponse(RetryResponses[r]).retryDelayMs
       ELSE Null,
     parseRetryDelayFromBody(RetryResponses[r]) >>

Available(r) == LET sources == DelaySources(r) IN { k \in 1..4 : sources[k] # Null }

FirstAvailable(r) ==
  LET sources == DelaySources(r)
      available == { k \in 1..4 : sources[k] # Null }
  IN sources[CHOOSE k \in available : \A l \in available : k <= l]

BackoffDelays(a) == { getExponentialDelayWithJitter(a, j) : j \in JitterPct }

\* C19: the delay waited after a response comes from the first source that
\* yields one, cut to DEFAULT_MAX_DELAY_MS; with no source, and after a
\* transport error, it is the exponential backoff of the attempt.
C19_DelayPrecedence ==
  \A i \in DOMAIN waitLog :
    IF respLog[i].err = "" /\ Available(respLog[i].resp) # {}
      THEN waitLog[i] = clampDelay(FirstAvailable(respLog[i].resp))
      ELSE waitLog[i] \in BackoffDelays(i)

\* a response with both headers and a RetryInfo delay was followed by the
\* wait of its retry-after-ms header, one with a body delay only by that delay
C19_Witness ==
  /\ Len(respLog) = 3
  /\ respLog[1] = Outcome(17, "") /\ respLog[2] = Outcome(19, "")
  /\ waitLog = << 700, 3000 >>

\* a 429 with this reason, or with this quota violation and no reason, is
\* waiting for its retry delay to be resolved
Classified(r, reason, violation) ==
  /\ pc[1] = "resolve" /\ resp[1] = r
  /\ Has429Reason(r, reason)
  /\ RetryResponses[r].body.violation = violation

\* C20 as stated: the delay of the classification is 10 s for
\* RATE_LIMIT_EXCEEDED and 60 s for a per-minute violation, or the delay the
\* body states when that is the smaller one.
C20_Original ==
  \A r \in DOMAIN RetryResponses :
    /\ Classified(r, "RATE_LIMIT_EXCEEDED", "none")
         => quotaContext[1].retryDelayMs =
              IF StatedDelay(r) # Null /\ StatedDelay(r) < RATE_LIMIT_DEFAULT_DELAY_MS
                THEN StatedDelay(r) ELSE RATE_LIMIT_DEFAULT_DELAY_MS
    /\ Classified(r, "", "perminute")
         => quotaContext[1].retryDelayMs =
              IF StatedDelay(r) # Null /\ StatedDelay(r) < PER_MINUTE_DEFAULT_DELAY_MS
                THEN StatedDelay(r) ELSE PER_MINUTE_DEFAULT_DELAY_MS

\* C20 amended: the delay of the classification is the delay the body
\* states, smaller or larger, and 10 s or 60 s only when it states none.
C20_DefaultOnlyWithoutStatedDelay ==
  \A r \in DOMAIN RetryResponses :
    /\ Classified(r, "RATE_LIMIT_EXCEEDED", "none")
         => quotaContext[1].retryDelayMs =
              IF StatedDelay(r) # Null
                THEN StatedDelay(r) ELSE RATE_LIMIT_DEFAULT_DELAY_MS
    /\ Classified(r, "", "perminute")
         => quotaContext[1].retryDelayMs =
              IF StatedDelay(r) # Null
                THEN StatedDelay(r) ELSE PER_MINUTE_DEFAULT_DELAY_MS

\* a rate limit stating 45 s was classified with 45 s
C20_Witness ==
  /\ Classified(12, "RATE_LIMIT_EXCEEDED", "none")
  /\ StatedDelay(12) = 45000
  /\ quotaContext[1].retryDelayMs = 45000

\* a 429 whose ErrorInfo names a domain that is no Code Assist hostname
Foreign429(r) ==
  /\ r # 0
  /\ RetryResponses[r].status = 429
  /\ RetryResponses[r].body.present
  /\ RetryResponses[r].body.domain \notin CLOUDCODE_DOMAINS \cup { "" }

\* the delay of a 429 without classification: a retry header, else the delay
\* stated in the body (Null: none, exponential backoff)
GenericDelay(r) ==
  LET hdrMs == parseRetryAfterMs(RetryResponses[r].retryAfterMs)
      hdr   == parseRetryAfter(RetryResponses[r].retryAfter)
  IN  IF hdrMs # Null THEN hdrMs
      ELSE IF hdr # Null THEN hdr
      ELSE StatedDelay(r)

\* C21: a 429 whose ErrorInfo domain is not a Code Assist hostname gets no
\* quota classification whatever its reason or violation: it is never
\* terminal, and the wait after it is the delay of its headers or body, cut
\* to DEFAULT_MAX_DELAY_MS, or else exponential backoff.
C21_ForeignDomainGeneric ==
  \A i \in DOMAIN respLog :
    (body[1].kind # "stream" /\ Foreign429(respLog[i].resp))
      => /\ RetriedAfter(i)
         /\ (pc[1] = "resolve" /\ Len(respLog) = i) => quotaContext[1] = NoQuota
         /\ i \in DOMAIN waitLog =>
              IF GenericDelay(respLog[i].resp) # Null
                THEN waitLog[i] = clampDelay(GenericDelay(respLog[i].resp))
                ELSE waitLog[i] \in BackoffDelays(i)

\* three foreign 429s, one that names a terminal reason, one a rate limit
\* and one a daily quota violation with a RetryInfo delay: each was retried
C21_Witness ==
  /\ pc[1] = "done" /\ ~aborted[1] /\ fetches[1] = 3
  /\ respLog = << Outcome(23, ""), Outcome(25, ""), Outcome(11, "") >>
  /\ waitLog[1] \in BackoffDelays(1) /\ waitLog[2] = 1500
  /\ result[1] = Response(11)

(***************************************************************************)
(* Claims about the token refresh next to the project context caches       *)
(* (checked under SpecRevocation).                                         *)
(***************************************************************************)
\* the exchange of call r has just learnt that its refresh token is revoked
RevokedNow(r) == chainEnd[r] # "revoked" /\ chainEnd'[r] = "revoked"

\* the credential written after a revocation: no refresh token, no access
\* token, the project ids of the revoked credential
EmptiedCredentialOf(r, auth) ==
  /\ auth.access = 0
  /\ parseRefreshParts(auth.refresh).refreshToken = ""
  /\ parseRefreshParts(auth.refresh).projectId
       = parseRefreshParts(rauth[r].refresh).projectId
  /\ parseRefreshParts(auth.refresh).managedProjectId
       = parseRefreshParts(rauth[r].refresh).managedProjectId

RevocationStep ==
  \A r \in RevocationCalls :
    /\ RevokedNow(r) =>
         /\ \A e \in authCache' : e.refresh # rauth[r].refresh
         /\ \A k \in DOMAIN projectContextResultCache' : k.base # rauth[r].refresh
         /\ \A k \in DOMAIN projectContextPendingCache' : k.base # rauth[r].refresh
         /\ authSetCalls'[r] = authSetCalls[r] + 1
         /\ rpc'[r] = "clearStore"
    /\ (rpc[r] = "clearStore" /\ rpc'[r] # "clearStore") =>
         /\ chainResult'[r] = Undefined
         /\ authStore' # authStore => EmptiedCredentialOf(r, authStore')
    /\ (rpc[r] # "done" /\ rpc'[r] = "done" /\ chainOf'[r] # 0
          /\ chainEnd'[chainOf'[r]] = "revoked") => rresult'[r] = Undefined

WorthRetrying(o) ==
  IF o.err = ""
    THEN TokenResponses[o.resp].status = 429
           \/ TokenResponses[o.resp].status \in 500..599
    ELSE o.err \in RETRYABLE_NETWORK_CODES \cup { "fetch failed" }

\* C23: a token refresh sends at most DEFAULT_MAX_ATTEMPTS = 3 requests to
\* the token endpoint; every request but the last was answered 5xx or 429
\* or failed with a transient network error, and after such an outcome of
\* the first or second request the refresh goes on to the next request.
C23_AtMostThreeRequests ==
  /\ Len(tokenLog) <= DEFAULT_MAX_ATTEMPTS
  /\ \A i \in DOMAIN tokenLog : i < Len(tokenLog) => WorthRetrying(tokenLog[i])
  /\ (tokenLog # << >> /\ Len(tokenLog) < DEFAULT_MAX_ATTEMPTS
        /\ WorthRetrying(tokenLog[Len(tokenLog)]))
       => rpc[1] \in { "wait", "fetch" }
  /\ rpc[1] = "fetch" => Len(tokenLog) = rattempt[1] - 1

\* a 429, a TLS error and a 503: the third request was the last and the
\* refresh ended with undefined
C23_Witness ==
  /\ rpc[1] = "done" /\ rresult[1] = Undefined
  /\ tokenLog = << Outcome(7, ""), Outcome(0, "ERR_SSL_WRONG_VERSION_NUMBER"),
                   Outcome(6, "") >>

(***************************************************************************)
(* Claims about a single ensureProjectContext call (checked under          *)
(* SpecSingleResolution).                                                  *)
(***************************************************************************)
\* the call has failed towards its caller with this error
FailedWith(error) == ppc[1] = "done" /\ presult[1] = Failure(error)

HasFailed == ppc[1] = "done" /\ presult[1].kind = "error"

\* a request to the load, onboard or operation endpoint was refused or threw
RequestFailed ==
  \E i \in DOMAIN projectLog :
    projectLog[i].op \in { "load", "onboard", "poll" } /\ ~projectLog[i].ok

\* the load answer names a current tier, no project, and ineligible tiers
\* with a reason
IneligibleReported ==
  /\ loadLog # << >>
  /\ loadLog[1].loaded
  /\ normalizeProjectId(loadLog[1].cloudaicompanionProject) = ""
  /\ loadLog[1].currentTier # ""
  /\ loadLog[1].ineligible # ""

\* the write of the resolved credential to the Auth Store threw
StoreWriteFailed ==
  /\ projectLog # << >>
  /\ projectLog[Len(projectLog)].op = "set"
  /\ ~projectLog[Len(projectLog)].ok

\* C24 as stated: a resolution that fails fails with ProjectIdRequiredError.
C24_Original == HasFailed => FailedWith("ProjectIdRequiredError")

\* C24 amended: a resolution fails with ProjectIdRequiredError, except that
\* it fails with the reasons of the ineligible tiers when the load answer
\* reports them next to a current tier without a project, and with the
\* error of client.auth.set when the write of the resolved credential
\* throws; a refused or failed load, onboard or poll request always ends in
\* ProjectIdRequiredError.
C24_OnlyProjectIdRequired ==
  /\ HasFailed =>
       \/ FailedWith("ProjectIdRequiredError")
       \/ IneligibleReported /\ FailedWith(loadLog[1].ineligible)
       \/ StoreWriteFailed /\ FailedWith("StoreError")
  /\ (RequestFailed /\ ppc[1] = "done") => FailedWith("ProjectIdRequiredError")
  /\ (IneligibleReported /\ ppc[1] = "done") => FailedWith(loadLog[1].ineligible)
  /\ (StoreWriteFailed /\ ppc[1] = "done") => FailedWith("StoreError")

\* the poll of the onboard operation was refused after a load and an onboard
\* call that went well: ProjectIdRequiredError
C24_Witness ==
  /\ FailedWith("ProjectIdRequiredError")
  /\ Len(projectLog) = 3
  /\ projectLog[1].op = "load" /\ projectLog[2].op = "onboard"
  /\ projectLog[3] = Returned("poll", 5000, FALSE, FALSE)

\* the default tier of a list, else its first tier
DefaultOrFirst(tiers) ==
  LET defaults == { i \in DOMAIN tiers : tiers[i].isDefault }
  IN  IF defaults = {} THEN tiers[1]
      ELSE tiers[CHOOSE i \in defaults : \A j \in defaults : i <= j]

\* the load answer has allowed tiers, no current tier and no project, and the
\* default or else first allowed tier is not the free tier
NonFreeTierOffered ==
  /\ loadLog # << >>
  /\ loadLog[1].loaded
  /\ normalizeProjectId(loadLog[1].cloudaicompanionProject) = ""
  /\ loadLog[1].currentTier = ""
  /\ loadLog[1].allowedTiers # << >>
  /\ DefaultOrFirst(loadLog[1].allowedTiers).id # FREE_TIER_ID

Polls == { i \in DOMAIN projectLog : projectLog[i].op = "poll" }

\* C26: the operation is polled at most 10 times, each poll 5000 ms after
\* the answer before it, and only after an answer (of the onboard call or
\* of the poll before) that was accepted and not done.
C26_PollsBounded ==
  /\ Cardinality(Polls) <= 10
  /\ \A i \in Polls :
       /\ projectLog[i].waited = 5000
       /\ i > 1
       /\ projectLog[i - 1].op \in { "onboard", "poll" }
       /\ projectLog[i - 1].ok /\ ~projectLog[i - 1].done

\* ten polls that all found the operation running, and the resolution over
C26_Witness ==
  /\ ppc[1] = "done"
  /\ Cardinality(Polls) = 10
  /\ \A i \in Polls : projectLog[i] = Returned("poll", 5000, TRUE, FALSE)

\* C27: a call whose credential carries a project id or a managed project
\* id is settled without a request: nothing is loaded, onboarded, polled or
\* written, and the result is that project id.
C27_FastPath ==
  LET parts == parseRefreshParts(pauth[1].refresh)
  IN  (ppc[1] # "idle" /\ pauth[1].access # 0
         /\ (parts.projectId # "" \/ parts.managedProjectId # ""))
        => /\ ppc[1] \in { "settled", "done" }
           /\ loads[1] = 0
           /\ projectLog = << >>
           /\ ppc[1] = "done" =>
                /\ presult[1].kind = "value"
                /\ presult[1].auth = pauth[1]
                /\ presult[1].effectiveProjectId =
                     IF pcfg[1] # "" THEN pcfg[1]
                     ELSE IF parts.projectId # "" THEN parts.projectId
                     ELSE parts.managedProjectId

\* a credential with a managed project id was answered with it
C27_Witness ==
  /\ ppc[1] = "done"
  /\ pauth[1].refresh = << "rt1", "", "m1" >>
  /\ presult[1] = Context(pauth[1], "m1")
  /\ loads[1] = 0 /\ projectLog = << >>

(***************************************************************************)
(* Claims about the loader's fetch (checked under SpecLoader).             *)
(***************************************************************************)
\* the record the expiry check was asked about had no access token, no
\* numeric expiry, or one within the margin of the time of the check
WithinMarginAtCheck ==
  \/ checkedAuth.access = 0
  \/ checkedAuth.expires = Null
  \/ checkedAuth.expires <= checkedAt + ACCESS_TOKEN_EXPIRY_BUFFER_MS

Attached == fetchPc = "sent"

\* C28 as stated: an access token is attached only when its expiry is more
\* than 60 s in the future, and a token that is missing or expires within
\* 60 s is refreshed before use.
C28_Original ==
  Attached =>
    /\ authRecord.expires > sentAt + ACCESS_TOKEN_EXPIRY_BUFFER_MS
    /\ WithinMarginAtCheck => refreshedAt # Null

\* C28: the access token handed to the outbound call is either the checked
\* record's one, which was present and, at the time of the check, expired
\* more than 60 s later, or, when the checked record had no token or one
\* expiring within 60 s, the one a refresh returned, whose expiry is the
\* time of the refresh plus the lifetime the token endpoint stated and is
\* not checked again; no token is attached on any other path.
C28_TrustedAtCheck ==
  /\ ~Attached => bearer = 0
  /\ Attached =>
       /\ bearer # 0
       /\ bearer = authRecord.access
       /\ WithinMarginAtCheck <=> refreshedAt # Null
       /\ refreshedAt = Null => authRecord = checkedAuth
       /\ refreshedAt # Null =>
            /\ refreshedAt >= checkedAt
            /\ \E s \in RefreshLifetimesSec : authRecord.expires = refreshedAt + s * 1000

\* a stored token that expires exactly 60 s after the check was refreshed,
\* and the refreshed token was attached
C28_Witness ==
  /\ Attached
  /\ checkedAuth.access # 0
  /\ checkedAuth.expires = checkedAt + ACCESS_TOKEN_EXPIRY_BUFFER_MS
  /\ refreshedAt # Null
  /\ bearer = 2

(***************************************************************************)
(* Claims about transformGeminiResponse (checked under SpecResponse).      *)
(***************************************************************************)
HasReturned == transformPc = "returned"

\* the upstream body is no JSON object and no array around one
Unparsable == upstream.body.form \notin { "object", "array" }

\* the body is parsed but has no response member, and the status is not
\* the one of the preview access rewrite
Untransformable ==
  /\ upstream.body.form \in { "object", "array" }
  /\ upstream.body.value.response = NoValue
  /\ upstream.status # 404

\* C29: the response transformGeminiResponse returns has the status of the
\* upstream response, so a failure stays a failure, and a body that cannot
\* be parsed or transformed is returned as it was received.
C29_StatusAndBodyKept ==
  HasReturned =>
    /\ returned.status = upstream.status
    /\ returned.ok = upstream.ok
    /\ ~textRead /\ returned.isUpstream => returned = upstream
    /\ textRead /\ (Unparsable \/ Untransformable) => returned.body = upstream.body

\* a 500 whose JSON body does not parse came back as a new response with
\* status 500 and the text that was read
C29_Witness ==
  /\ HasReturned
  /\ textRead
  /\ upstream.status = 500
  /\ upstream.body.form = "garbage"
  /\ ~returned.isUpstream
  /\ returned.status = 500
  /\ returned.body = upstream.body

(***************************************************************************)
(* Claims about transformRequestBody (checked under SpecRequest).          *)
(***************************************************************************)
\* the body has a string project and a request key
WrappedShape(text) ==
  /\ text.form = "object"
  /\ text.value.project # Missing
  /\ text.value.request.kind # "missing"

\* C30 as stated: of a body in wrapped shape only the model member is
\* changed, and a body that went through the transformer is left unchanged
\* by going through it again.
C30_OnlyModelPatched ==
  /\ bodyPc >= 1 /\ WrappedShape(requestText) =>
       transformed.body =
         JSONstringify([requestText.value EXCEPT !.model = bodyArgs.effectiveModel])
  /\ bodyPc = 2 => retransformed.body = transformed.body

(***************************************************************************)
(* Claims about the length of the waits of fetchWithRetry (checked under   *)
(* SpecSingleCall, whose responses ask for delays of up to 45 s) and about *)
(* the life of a cooldown entry (checked under SpecRetry).                 *)
(***************************************************************************)
\* C40: every wait(delayMs) of fetchWithRetry, after a retryable status or
\* after a network error, lasts between 0 and DEFAULT_MAX_DELAY_MS
\* (30,000 ms), and so does every pending timer; every cooldown deadline
\* lies at most DEFAULT_MAX_DELAY_MS ahead, which bounds the wait of
\* waitForRetryCooldown (until - Date.now()) in the same way.
C40_WaitsBounded ==
  /\ \A i \in DOMAIN waitLog : waitLog[i] \in 0..DEFAULT_MAX_DELAY_MS
  /\ \A c \in Calls :
       pc[c] \in { "backoff", "cooldown" } => timer[c] \in 0..DEFAULT_MAX_DELAY_MS
  /\ \A k \in ThrottleKeys : retryCooldownByKey[k] \in 0..DEFAULT_MAX_DELAY_MS

\* a rate limit whose RetryInfo asks for 45 s is waited out for 30 s, and
\* the cooldown of the key ends 30 s ahead
C40_Witness ==
  /\ pc[1] = "backoff"
  /\ resp[1] # 0
  /\ BodyRetryDelayMs(RetryResponses[resp[1]].body) = 45000
  /\ timer[1] = DEFAULT_MAX_DELAY_MS
  /\ waitLog = << DEFAULT_MAX_DELAY_MS >>
  /\ retryCooldownByKey[KeyOf(1)] = DEFAULT_MAX_DELAY_MS

\* C36 as stated: a cooldown entry is removed only after its deadline has
\* passed, so a call that ends its cooldown wait finds the entry of its key
\* expired; an entry that another call has extended in the meantime stays.
C36_RemovedOnlyAfterDeadline ==
  [][\A c \in Calls :
       (pc[c] = "cooldown" /\ pc'[c] = "ready")
         => (retryCooldownByKey[KeyOf(c)] > 0 => retryCooldownByKey'[KeyOf(c)] > 0)]_vars

(***************************************************************************)
(* Further claims about the token refresh (checked under SpecToken).       *)
(***************************************************************************)
\* C38 as stated: a call that joined the refresh in flight for its refresh
\* token gets a credential with the project id and the managed project id
\* of the credential it passed in.
C38_JoinerKeepsOwnProject ==
  \A r \in RefreshCalls :
    (rpc[r] = "done" /\ chainOf[r] \notin { 0, r } /\ rresult[r].kind = "auth")
      => /\ parseRefreshParts(rresult[r].auth.refresh).projectId
              = parseRefreshParts(rauth[r].refresh).projectId
         /\ parseRefreshParts(rresult[r].auth.refresh).managedProjectId
              = parseRefreshParts(rauth[r].refresh).managedProjectId

(***************************************************************************)
(* The three in-flight maps together.  refreshInFlight, the pending cache  *)
(* of the project resolver and exchangeInFlight belong to three modules;   *)
(* a behaviour of SpecInFlight exercises the calls of one of them, with    *)
(* every interleaving and every answer of that component.                  *)
(***************************************************************************)
NoRefreshCalled == \A r \in RefreshCalls : rpc[r] = "idle"

NoProjectCalled == \A p \in ProjectCalls : ppc[p] = "idle"

NoExchangeCalled == \A c \in ExchangeCalls : xpc[c] = "idle"

NextInFlight ==
  \/ NoProjectCalled /\ NoExchangeCalled /\ NextToken
  \/ NoRefreshCalled /\ NoExchangeCalled /\ NextProject
  \/ NoRefreshCalled /\ NoProjectCalled /\ NextExchange

SpecInFlight == Init /\ [][NextInFlight]_vars

\* the calls that own an entry of an in-flight map
RefreshOwners == { refreshInFlight[t] : t \in RefreshTokens } \ { 0 }

ResolutionOwners == { projectContextPendingCache[k] : k \in DOMAIN projectContextPendingCache }

ExchangeOwners == { exchangeInFlight[k] : k \in DOMAIN exchangeInFlight }

\* C35: no in-flight map holds the entry of an operation whose call has
\* returned, whether it ended in a success or in a failure; and a call that
\* finds an entry for its key and returns that promise never gets the
\* promise of a call that has returned: it starts an operation of its own.
C35_EntryGoneOnceSettled ==
  [][/\ \A r \in RefreshOwners' : rpc'[r] # "done"
     /\ \A p \in ResolutionOwners' : ppc'[p] # "done"
     /\ \A c \in ExchangeOwners' : xpc'[c] # "done"
     /\ \A r \in RefreshCalls :
          (rpc[r] = "idle" /\ rpc'[r] = "joined") => rpc[chainOf'[r]] # "done"
     /\ \A p \in ProjectCalls :
          (ppc[p] = "idle" /\ ppc'[p] = "joined") => ppc[pjoined'[p]] # "done"
     /\ \A c \in ExchangeCalls :
          (xpc[c] = "idle" /\ xpc'[c] = "joined") => xpc[xjoined'[c]] # "done"]_vars

\* a refresh, a resolution or an exchange has failed, its call has returned,
\* and a later call for the same key has started an operation of its own
C35_Witness ==
  \/ \E r1 \in RefreshCalls, r2 \in RefreshCalls :
       /\ r1 < r2
       /\ rpc[r1] = "done" /\ chainOf[r1] = r1 /\ rresult[r1].kind = "undefined"
       /\ rauth[r2] = rauth[r1]
       /\ chainOf[r2] = r2 /\ refreshInFlight[TokenOf(r2)] = r2
  \/ \E p1 \in ProjectCalls, p2 \in ProjectCalls :
       /\ p1 < p2
       /\ ppc[p1] = "done" /\ pjoined[p1] = 0 /\ presult[p1].kind = "error"
       /\ pkey[p2] = pkey[p1]
       /\ pjoined[p2] = 0 /\ PendingResolution(projectContextPendingCache, pkey[p2]) = p2
  \/ \E c1 \in ExchangeCalls, c2 \in ExchangeCalls :
       /\ c1 < c2
       /\ xpc[c1] = "done" /\ xjoined[c1] = 0 /\ xoutcome[c1].type = "failed"
       /\ xkey[c1] # NoExchangeKey /\ xkey[c2] = xkey[c1]
       /\ xjoined[c2] = 0 /\ PendingExchange(exchangeInFlight, xkey[c2]) = c2

(***************************************************************************)
(* A further claim about the project context caches (checked under         *)
(* SpecProject).                                                           *)
(***************************************************************************)
\* the pending entry of call p was deleted while its resolution was in
\* flight: p is the only call made so far, so only
\* invalidateProjectContextCache can have deleted it
InvalidatedWhileInFlight(p) ==
  /\ ppc[p] = "settled"
  /\ pkey[p] # NoCacheKey
  /\ PendingResolution(projectContextPendingCache, pkey[p]) # p
  /\ \A q \in ProjectCalls \ { p } : ppc[q] = "idle"

\* C37 as stated: a resolution that was in flight when
\* invalidateProjectContextCache was called for its credential does not
\* repopulate the cache: when it ends, the result cache is left as the
\* invalidation left it, so no later call is served its result.
C37_NoRepopulation ==
  [][\A p \in ProjectCalls :
       (InvalidatedWhileInFlight(p) /\ ppc'[p] = "done")
         => projectContextResultCache' = projectContextResultCache]_vars

SpecLabel == Init /\ [][NextLabel]_vars

(***************************************************************************)
(* A claim about the labels of 429 errors (checked under SpecLabel).       *)
(***************************************************************************)
\* the label of the enhanced message, "" without one
LabelOf(enhanced) ==
  IF enhanced.body = NoValue THEN ""
  ELSE IF enhanced.body.error.message = << "Rate limit exceeded." >> THEN "retryable"
  ELSE "exhausted"

\* C34 as stated: for every 429 error body the label of the enhancer agrees
\* with the classification of the retry engine: a body labelled as a
\* retryable rate limit is not terminal for the retry engine, and a body
\* labelled as quota exhaustion is terminal.
C34_LabelAgrees ==
  labelPc = "classified" =>
    /\ LabelOf(labelEnhanced) = "retryable" => ~IsTerminal(labelQuota)
    /\ LabelOf(labelEnhanced) = "exhausted" => IsTerminal(labelQuota)

SpecThinking == Init /\ [][NextThinking]_vars

(***************************************************************************)
(* A claim about the thinking configuration (checked under SpecThinking).  *)
(***************************************************************************)
\* the config is an object that has none of the six keys
LacksAllFields(config) ==
  /\ config.present
  /\ config.thinkingBudget = JsUndefined /\ config.thinking_budget = JsUndefined
  /\ config.thinkingLevel = JsUndefined /\ config.thinking_level = JsUndefined
  /\ config.includeThoughts = JsUndefined /\ config.include_thoughts = JsUndefined

\* C33 as stated: for every thinking configuration that has none of budget,
\* level and include-thoughts, in either spelling, the emitted body holds no
\* thinking configuration.
C33_Original ==
  (thinkPc = "done" /\ LacksAllFields(thinkInput.generationConfig.thinkingConfig))
    => ~thinkEmitted.thinkingConfig.present

\* C33 amended: this holds for a body that is not yet in wrapped shape,
\* the other members of its generationConfig being kept; the request of a
\* body in wrapped shape is emitted as it came.
C33_DeadConfigRemoved ==
  (thinkPc = "done" /\ LacksAllFields(thinkInput.generationConfig.thinkingConfig))
    => IF thinkInput.wrapped
         THEN thinkEmitted = thinkInput.generationConfig
         ELSE thinkEmitted =
                [thinkInput.generationConfig EXCEPT !.thinkingConfig = NoThinkingConfig]

\* a body that is not wrapped had a thinkingConfig with an unknown key only,
\* next to a temperature; the emitted generationConfig has the temperature
\* and no thinkingConfig
C33_Witness ==
  /\ thinkPc = "done"
  /\ ~thinkInput.wrapped
  /\ LacksAllFields(thinkInput.generationConfig.thinkingConfig)
  /\ thinkInput.generationConfig.thinkingConfig.otherKey
  /\ thinkInput.generationConfig.temperature
  /\ thinkEmitted = GenerationConfig(TRUE, NoThinkingConfig, TRUE)

SpecStream == Init /\ [][NextStream]_vars

(***************************************************************************)
(* A claim about the streamed body (checked under SpecStream).             *)
(***************************************************************************)
\* the terminators of a text in their order: CRLF or LF
Terminators(text) ==
  LET ends == { i \in DOMAIN text : text[i] = LF }
      Kind(i) == IF i > 1 /\ text[i - 1] = CR THEN "CRLF" ELSE "LF"
      RECURSIVE From(_)
      From(i) == IF i > Len(text) THEN << >>
                 ELSE IF i \in ends THEN << Kind(i) >> \o From(i + 1)
                 ELSE From(i + 1)
  IN  From(1)

\* the text that was received, whatever the reads were
Received == Flatten(chunksRead)

\* the received text rewritten line by line in one piece
RewrittenWhole ==
  LET drained == DrainLines(Received, << >>)
  IN  IF drained.buffer # << >>
        THEN drained.enqueued \o transformStreamingLine(drained.buffer)
        ELSE drained.enqueued

\* C32: the rewritten stream has one line per line received, with the same
\* terminator (LF or CRLF) in the same order, and it is the text that
\* rewriting the received text line by line in one piece gives, however the
\* text was split across reads.
C32_LinesKept ==
  streamPc = "closed" =>
    /\ Terminators(enqueued) = Terminators(Received)
    /\ enqueued = RewrittenWhole

\* a data line ended by CRLF came in three reads, split inside the line and
\* between CR and LF, and went out rewritten and ended by CRLF
C32_Witness ==
  /\ streamPc = "closed"
  /\ chunksRead = << << "data:" >>, << "{response}", CR >>, << LF >> >>
  /\ enqueued = << "data:", " ", "response", CR, LF >>

SpecSchema == Init /\ [][NextSchema]_vars

(***************************************************************************)
(* A claim about the schema normalisation (checked under SpecSchema).      *)
(***************************************************************************)
RECURSIVE NodesOf(_)
\* the value and every value below it
NodesOf(value) ==
  { value } \cup UNION { NodesOf(value.members[i].value) : i \in DOMAIN value.members }

KeysOf(value) == { value.members[i].key : i \in DOMAIN value.members }

\* a node that has an anyOf or any_of union
IsUnionNode(value) ==
  isRecord(value) /\ (IsArray(Get(value, "anyOf")) \/ IsArray(Get(value, "any_of")))

UnionKeys == { "anyOf", "any_of" }

DefinitionKeys == { ANY_OF_DEFINITION_KEYS[k] : k \in DOMAIN ANY_OF_DEFINITION_KEYS }

\* no union node at any depth of the value has a key outside UnionKeys and allowed
OnlySiblings(value, allowed) ==
  \A node \in NodesOf(value) : IsUnionNode(node) => KeysOf(node) \subseteq UnionKeys \cup allowed

RECURSIVE DefinitionsKept(_, _)
\* every definition block beside a union of the first value is found at the
\* same place of the second, followed through arrays, union branches, plain
\* members and the definition blocks themselves
DefinitionsKept(before, after) ==
  IF IsArray(before)
    THEN /\ IsArray(after)
         /\ Len(after.members) = Len(before.members)
         /\ \A i \in DOMAIN before.members :
              DefinitionsKept(before.members[i].value, after.members[i].value)
  ELSE IF ~isRecord(before) THEN TRUE
  ELSE IF IsUnionNode(before)
    THEN /\ IsUnionNode(after)
         /\ \A key \in DefinitionKeys :
              HasKey(before, key) =>
                /\ HasKey(after, key)
                /\ DefinitionsKept(Get(before, key), Get(after, key))
         /\ \A key \in UnionKeys :
              HasKey(after, key) => DefinitionsKept(Get(before, key), Get(after, key))
  ELSE /\ isRecord(after)
       /\ \A key \in KeysOf(before) :
            HasKey(after, key) /\ DefinitionsKept(Get(before, key), Get(after, key))

\* C31 as stated: after the normalisation no node with an anyOf/any_of union,
\* at any depth, has a sibling key other than $defs and definitions, and the
\* definition blocks are kept and normalised.
C31_Original ==
  schemaPc = "done" =>
    /\ OnlySiblings(schemaOutput, { "$defs", "definitions" })
    /\ DefinitionsKept(schemaInput, schemaOutput)

\* C31: after the normalisation no node with an anyOf/any_of union, at any
\* depth, has a sibling key other than $defs, defs and definitions; every
\* such block of the input is still beside its union and is normalised too.
C31_OnlyDefinitionSiblings ==
  schemaPc = "done" =>
    /\ OnlySiblings(schemaOutput, DefinitionKeys)
    /\ DefinitionsKept(schemaInput, schemaOutput)

\* a union two levels down had a description and a $defs block that held a
\* union with a description of its own; both descriptions are gone and the
\* block is still there
C31_Witness ==
  /\ schemaPc = "done"
  /\ \E node \in NodesOf(schemaInput) :
       /\ node # schemaInput
       /\ IsUnionNode(node)
       /\ HasKey(node, "description")
       /\ IsUnionNode(Get(node, "$defs"))
       /\ HasKey(Get(node, "$defs"), "description")
  /\ \E node \in NodesOf(schemaOutput) :
       /\ IsUnionNode(node)
       /\ IsUnionNode(Get(node, "$defs"))
  /\ \A node \in NodesOf(schemaOutput) : ~HasKey(node, "description")

SpecSession == Init /\ [][NextSession]_vars

(***************************************************************************)
(* A claim about the authorization session (checked under SpecSession).    *)
(***************************************************************************)
\* the input of the call had no error, a state that is present (unless the
\* input is a bare code) and right, and a well-formed code
WellFormed(c) ==
  /\ cbInput[c].error = ""
  /\ cbInput[c].source = "raw" \/ cbInput[c].state # ""
  /\ cbInput[c].state \in { "", AuthorizationState }
  /\ normalizeAuthorizationCode(cbInput[c].code) # NoCode

InLifetime(c) == cbArrival[c].age <= AUTHORIZATION_SESSION_TTL_MS

\* C39 as stated: the exchange is started at most once; a callback that
\* arrives while it is in flight gets its result, a callback that arrives
\* after it has settled is rejected as already submitted.
C39_Original ==
  /\ exchangesStarted <= 1
  /\ \A c \in Callbacks :
       cbPc[c] = "done" =>
         /\ cbArrival[c].phase = "in flight" => cbResult[c] = exchangeSettlement
         /\ cbArrival[c].phase \in { "settled", "finished" } =>
              cbResult[c] = CodeAlreadySubmitted

\* C39: the exchange is started at most once in a session; a callback whose
\* input passes the checks and that arrives within the session's lifetime
\* before the call that started the exchange has returned gets the result of
\* the exchange, and one that arrives after that call has returned is
\* rejected as already submitted.
C39_ExchangedOnce ==
  /\ exchangesStarted <= 1
  /\ \A c \in Callbacks :
       (cbPc[c] = "done" /\ WellFormed(c) /\ InLifetime(c)) =>
         /\ cbArrival[c].phase \in { "in flight", "settled" } =>
              cbResult[c] = exchangeSettlement
         /\ cbArrival[c].phase = "finished" => cbResult[c] = CodeAlreadySubmitted

\* of three callbacks with good input the first started the exchange, the
\* second came while it was in flight and got its result, the third came
\* after the first had returned and was rejected
C39_Witness ==
  /\ \A c \in Callbacks : cbPc[c] = "done" /\ WellFormed(c)
  /\ cbArrival[1].phase = "unstarted"
  /\ cbArrival[2].phase = "in flight"
  /\ cbArrival[3].phase = "finished"
  /\ cbArrival[3].age = SessionTickMs
  /\ exchangesStarted = 1
  /\ cbResult[1] = ExchangeResult("success", "")
  /\ cbResult[2] = cbResult[1]
  /\ cbResult[3] = CodeAlreadySubmitted

====
